---------------------------- MODULE Spec2Model ----------------------------
(***************************************************************************)
(* A model of the SPF record parser of mail-auth (src/src/spf/parse.rs)    *)
(* and of its message preprocessing (src/src/common/message.rs).           *)
(*                                                                         *)
(* Bytes are one-character strings; Ord gives a byte its ASCII code where  *)
(* the code does arithmetic on it.  A byte cursor (Iter<u8>) is the pair   *)
(* of the byte sequence s and the number i of bytes already consumed: the  *)
(* next byte read is s[i + 1].  A sub-parser returns a record with the     *)
(* cursor position it leaves (pos) and err, "" for Ok or the Error name.   *)
(***************************************************************************)
EXTENDS Integers, Sequences, FiniteSets, TLC

VARIABLES
    header,       \* input: the bytes of the version section of the record
    terms,        \* input: the terms the record is built from, in order
    unknown_at,   \* input: which of them is the inserted unknown term, 0 for none
    written,      \* input: what an address text is written from
    record,       \* the bytes handed to SPF::parse / to the sub-parser
    pos,          \* the byte cursor: bytes of record consumed so far
    pc,           \* where the call stands
    directives,   \* spf.directives
    modifiers,    \* spf.modifiers
    result,       \* "" while running, then "Ok" or the Error returned
    term_start,   \* pos at the start of the last iteration of the record loop
    last_term,    \* what next_term returned in that iteration
    is_exp,       \* macro_string's is_exp argument
    frags,        \* what the scan of macro_string left: its Vec macro_string, or the error
    ret,          \* what the sub-parser called on its own returned
    raw_message,  \* input: what the header scan of the raw message yields, and its body
    unstable_ties, \* input: whether the build's sort_unstable_by reorders equal keys
    next_header,  \* headers of raw_message taken from the scan so far
    message,      \* the AuthenticatedMessage under construction
    has_arc_errors, \* the flag of AuthenticatedMessage::parse
    msg_pc,       \* where AuthenticatedMessage::parse stands
    twin,         \* a second parse running beside the first: its input and locals
    ip6_locals    \* the locals of ip6 while it is followed byte by byte

spf_vars == <<header, terms, unknown_at, written, record, pos, pc, directives, modifiers, result,
              term_start, last_term, is_exp, frags, ret>>

msg_vars == <<raw_message, unstable_ties, next_header, message, has_arc_errors, msg_pc>>

vars == <<spf_vars, msg_vars, twin, ip6_locals>>

----------------------------------------------------------------------------
(* Bytes *)

\* the printable bytes 32..95 and 97..126, in code order
AsciiLow ==
    <<" ", "!", "\"", "#", "$", "%", "&", "'", "(", ")", "*", "+", ",", "-",
      ".", "/", "0", "1", "2", "3", "4", "5", "6", "7", "8", "9", ":", ";",
      "<", "=", ">", "?", "@", "A", "B", "C", "D", "E", "F", "G", "H", "I",
      "J", "K", "L", "M", "N", "O", "P", "Q", "R", "S", "T", "U", "V", "W",
      "X", "Y", "Z", "[", "\\", "]", "^", "_">>

AsciiHigh ==
    <<"a", "b", "c", "d", "e", "f", "g", "h", "i", "j", "k", "l", "m", "n",
      "o", "p", "q", "r", "s", "t", "u", "v", "w", "x", "y", "z", "{", "|",
      "}", "~">>

OrdTable ==
    [c \in {AsciiLow[k] : k \in 1..Len(AsciiLow)} \cup {AsciiHigh[k] : k \in 1..Len(AsciiHigh)} |->
        IF \E k \in 1..Len(AsciiLow) : AsciiLow[k] = c
          THEN 31 + (CHOOSE k \in 1..Len(AsciiLow) : AsciiLow[k] = c)
          ELSE 96 + (CHOOSE k \in 1..Len(AsciiHigh) : AsciiHigh[k] = c)]

Ord(c) == IF c = "\t" THEN 9 ELSE OrdTable[c]

Lower == {AsciiHigh[k] : k \in 1..26}
Upper == {AsciiLow[k] : k \in 34..59}
Digit == {AsciiLow[k] : k \in 17..26}

is_ascii_whitespace(c) == c \in {" ", "\t", "\n", "\f", "\r"}

DigitVal(c) == Ord(c) - Ord("0")

Min(a, b) == IF a < b THEN a ELSE b

RECURSIVE BitOr(_, _)
BitOr(a, b) ==
    IF a = 0 THEN b
    ELSE IF b = 0 THEN a
    ELSE (IF a % 2 = 1 \/ b % 2 = 1 THEN 1 ELSE 0) + 2 * BitOr(a \div 2, b \div 2)

----------------------------------------------------------------------------
(* u8 and u32 arithmetic.  A u32 is the pair <<hi, lo>> of its two 16-bit  *)
(* halves, so that 2^32 - 1 and the products on the way stay in range.     *)

U8MAX == 255
U16 == 65536

\* the same in wrapping u8 arithmetic
u8_mul10_add_wrapping(v, d) == (v * 10 + d) % (U8MAX + 1)

u8_mul10_add(v, d) == Min(U8MAX, Min(U8MAX, v * 10) + d)

U32MAX == <<U16 - 1, U16 - 1>>

u32_mul10_add(n, d) ==
    LET lo == n[2] * 10 + d
        hi == n[1] * 10 + (lo \div U16)
    IN  IF hi >= U16 THEN U32MAX ELSE <<hi, lo % U16>>

----------------------------------------------------------------------------
(* The packed keyword: a u64 as its 8 bytes, least significant first.      *)

U64(bytes) == [k \in 0..7 |-> IF k < Len(bytes) THEN Ord(bytes[k + 1]) ELSE 0]
U64ZERO == [k \in 0..7 |-> 0]
U64MAX == [k \in 0..7 |-> U8MAX]

A == U64(<<"a">>)
ALL == U64(<<"a", "l", "l">>)
EXISTS == U64(<<"e", "x", "i", "s", "t", "s">>)
EXP == U64(<<"e", "x", "p">>)
INCLUDE == U64(<<"i", "n", "c", "l", "u", "d", "e">>)
IP4 == U64(<<"i", "p", "4">>)
IP6 == U64(<<"i", "p", "6">>)
MX == U64(<<"m", "x">>)
PTR == U64(<<"p", "t", "r">>)
REDIRECT == U64(<<"r", "e", "d", "i", "r", "e", "c", "t">>)

\* the same with the shift taken in 32 bits
OrShiftedU32(d, code, shift) == [d EXCEPT ![(shift \div 8) % 4] = BitOr(@, code)]

\* d |= (ch as u64) << shift, shift a multiple of 8 below 64
OrShifted(d, code, shift) == [d EXCEPT ![shift \div 8] = BitOr(@, code)]

----------------------------------------------------------------------------
(* SPFParser::next_term *)

QualifierOf(ch) ==
    CASE ch = "+" -> "Pass"
      [] ch = "-" -> "Fail"
      [] ch = "~" -> "SoftFail"
      [] ch = "?" -> "Neutral"

\* the byte that stopped the term is put back for the next read
NextTermReturnPutsBack(d, qualifier, stop_char, i) ==
    IF d # U64ZERO
    THEN [some |-> TRUE, term |-> d, qualifier |-> qualifier,
          stop_char |-> stop_char, pos |-> i - 1]
    ELSE [some |-> FALSE, pos |-> i]

NextTermReturn(d, qualifier, stop_char, i) ==
    IF d # U64ZERO
    THEN [some |-> TRUE, term |-> d, qualifier |-> qualifier,
          stop_char |-> stop_char, pos |-> i]
    ELSE [some |-> FALSE, pos |-> i]

RECURSIVE NextTermLoop(_, _, _, _, _)
NextTermLoop(s, i, qualifier, d, shift) ==
    IF i >= Len(s) THEN NextTermReturn(d, qualifier, " ", i)
    ELSE
      LET ch == s[i + 1] IN
      IF (ch \in Lower \/ ch \in {"4", "6"}) /\ shift < 64
        THEN NextTermLoop(s, i + 1, qualifier, OrShifted(d, Ord(ch), shift), shift + 8)
      ELSE IF ch \in Upper /\ shift < 64
        THEN NextTermLoop(s, i + 1, qualifier,
                          OrShifted(d, Ord(ch) - Ord("A") + Ord("a"), shift), shift + 8)
      ELSE IF ch \in {"+", "-", "~", "?"} /\ shift = 0
        THEN NextTermLoop(s, i + 1, QualifierOf(ch), d, shift)
      ELSE IF ch \in {":", "=", "/"}
        THEN NextTermReturn(d, qualifier, ch, i + 1)
      ELSE IF is_ascii_whitespace(ch)
        THEN IF shift # 0
               THEN NextTermReturn(d, qualifier, " ", i + 1)
               ELSE NextTermLoop(s, i + 1, qualifier, d, shift)
      ELSE NextTermLoop(s, i + 1, qualifier, U64MAX, 64)

next_term(s, i) == NextTermLoop(s, i, "Pass", U64ZERO, 0)

----------------------------------------------------------------------------
(* SPFParser::cidr_length and SPFParser::dual_cidr_length *)

RECURSIVE CidrLoop(_, _, _)
CidrLoop(s, i, cidr_length) ==
    IF i >= Len(s) THEN [err |-> "", val |-> cidr_length, pos |-> i]
    ELSE
      LET ch == s[i + 1] IN
      IF ch \in Digit
        THEN CidrLoop(s, i + 1, u8_mul10_add(cidr_length, DigitVal(ch)))
      ELSE IF is_ascii_whitespace(ch)
        THEN [err |-> "", val |-> cidr_length, pos |-> i + 1]
      ELSE [err |-> "ParseFailed", pos |-> i + 1]

cidr_length(s, i) == CidrLoop(s, i, 0)

DualAccumulate(length, ch) ==
    IF length # U8MAX THEN u8_mul10_add(length, DigitVal(ch)) ELSE DigitVal(ch)

DualCidrReturn(ip4_length, ip6_length, i) ==
    [err |-> "", l1 |-> Min(ip4_length, 32), l2 |-> Min(ip6_length, 128), pos |-> i]

RECURSIVE DualCidrLoop(_, _, _, _, _)
DualCidrLoop(s, i, ip4_length, ip6_length, in_ip6) ==
    IF i >= Len(s) THEN DualCidrReturn(ip4_length, ip6_length, i)
    ELSE
      LET ch == s[i + 1] IN
      IF ch \in Digit
        THEN IF in_ip6
               THEN DualCidrLoop(s, i + 1, ip4_length, DualAccumulate(ip6_length, ch), in_ip6)
               ELSE DualCidrLoop(s, i + 1, DualAccumulate(ip4_length, ch), ip6_length, in_ip6)
      ELSE IF ch = "/"
        THEN IF ~in_ip6
               THEN DualCidrLoop(s, i + 1, ip4_length, ip6_length, TRUE)
             ELSE IF ip6_length # U8MAX
               THEN [err |-> "ParseFailed", pos |-> i + 1]
             ELSE DualCidrLoop(s, i + 1, ip4_length, ip6_length, in_ip6)
      ELSE IF is_ascii_whitespace(ch)
        THEN DualCidrReturn(ip4_length, ip6_length, i + 1)
      ELSE [err |-> "ParseFailed", pos |-> i + 1]

dual_cidr_length(s, i) == DualCidrLoop(s, i, U8MAX, U8MAX, FALSE)

----------------------------------------------------------------------------
(* SPFParser::ip4 *)

RECURSIVE Ip4Loop(_, _, _, _)
Ip4Loop(s, i, p, ip) ==
    IF i >= Len(s) THEN [pos |-> i, p |-> p, ip |-> ip, stop_char |-> " "]
    ELSE
      LET ch == s[i + 1] IN
      IF ch \in Digit
        THEN Ip4Loop(s, i + 1, p, [ip EXCEPT ![p] = u8_mul10_add(@, DigitVal(ch))])
      ELSE IF ch = "." /\ p < 3
        THEN Ip4Loop(s, i + 1, p + 1, ip)
      ELSE [pos |-> i + 1, p |-> p, ip |-> ip,
            stop_char |-> IF is_ascii_whitespace(ch) THEN " " ELSE ch]

\* lines 391-395
Ip4Return(r) ==
    IF r.p = 3
      THEN [err |-> "", addr |-> r.ip, stop_char |-> r.stop_char, pos |-> r.pos]
      ELSE [err |-> "InvalidIp4", pos |-> r.pos]

ip4(s, i) == Ip4Return(Ip4Loop(s, i, 0, [k \in 0..3 |-> 0]))

----------------------------------------------------------------------------
(* SPFParser::ip6 *)

HexDigit == Digit \cup {"a", "b", "c", "d", "e", "f"} \cup {"A", "B", "C", "D", "E", "F"}

HexVal(c) ==
    IF c \in Digit THEN DigitVal(c)
    ELSE IF c \in Lower THEN Ord(c) - Ord("a") + 10
    ELSE Ord(c) - Ord("A") + 10

\* u16::from_str_radix(part, 16) of one to four hex digits: never an error
RECURSIVE from_str_radix16(_)
from_str_radix16(part) ==
    IF part = <<>> THEN 0
    ELSE from_str_radix16(SubSeq(part, 1, Len(part) - 1)) * 16 + HexVal(part[Len(part)])

RECURSIVE DecVal(_)
DecVal(part) ==
    IF part = <<>> THEN 0
    ELSE DecVal(SubSeq(part, 1, Len(part) - 1)) * 10 + DigitVal(part[Len(part)])

\* part.parse::<u8>() of one to four bytes: -1 stands for Err
parse_u8(part) ==
    IF (\A k \in 1..Len(part) : part[k] \in Digit) /\ DecVal(part) <= U8MAX
      THEN DecVal(part) ELSE -1

\* usize::MAX in zero_group_pos: no zero group seen
NoZeroGroup == -1

Ip6Err(i) == [err |-> "InvalidIp6", pos |-> i]

\* ip[ip_pos] = (ip[ip_pos] << 8) | octet, in u16
Ip6LowOctet(ip, ip_pos, ip_part) ==
    [ip EXCEPT ![ip_pos] = BitOr((@ * 256) % U16, parse_u8(ip_part))]

RECURSIVE Ip6Loop(_, _, _, _, _, _, _)
Ip6Loop(s, i, ip, ip_pos, ip4_pos, ip_part, zero_group_pos) ==
    IF i >= Len(s)
      THEN [err |-> "", pos |-> i, ip |-> ip, ip_pos |-> ip_pos, ip4_pos |-> ip4_pos,
            ip_part |-> ip_part, zero_group_pos |-> zero_group_pos, stop_char |-> " "]
    ELSE
      LET ch == s[i + 1] IN
      IF ch \in HexDigit
        THEN IF Len(ip_part) < 4
               THEN Ip6Loop(s, i + 1, ip, ip_pos, ip4_pos, Append(ip_part, ch), zero_group_pos)
               ELSE Ip6Err(i + 1)
      ELSE IF ch = ":"
        THEN IF ip_pos < 8
               THEN IF Len(ip_part) # 0
                      THEN Ip6Loop(s, i + 1, [ip EXCEPT ![ip_pos] = from_str_radix16(ip_part)],
                                   ip_pos + 1, ip4_pos, <<>>, zero_group_pos)
                    ELSE IF zero_group_pos = NoZeroGroup
                      THEN Ip6Loop(s, i + 1, ip, ip_pos, ip4_pos, ip_part, ip_pos)
                    ELSE IF zero_group_pos # ip_pos
                      THEN Ip6Err(i + 1)
                    ELSE Ip6Loop(s, i + 1, ip, ip_pos, ip4_pos, ip_part, zero_group_pos)
               ELSE Ip6Err(i + 1)
      ELSE IF ch = "."
        THEN IF ip_pos < 8 /\ Len(ip_part) > 0
               THEN IF parse_u8(ip_part) = -1 THEN Ip6Err(i + 1)
                    ELSE IF ip4_pos % 2 = 1
                      THEN Ip6Loop(s, i + 1, Ip6LowOctet(ip, ip_pos, ip_part),
                                   ip_pos + 1, ip4_pos + 1, <<>>, zero_group_pos)
                      ELSE Ip6Loop(s, i + 1, [ip EXCEPT ![ip_pos] = parse_u8(ip_part)],
                                   ip_pos, ip4_pos + 1, <<>>, zero_group_pos)
               ELSE Ip6Err(i + 1)
      ELSE [err |-> "", pos |-> i + 1, ip |-> ip, ip_pos |-> ip_pos, ip4_pos |-> ip4_pos,
            ip_part |-> ip_part, zero_group_pos |-> zero_group_pos,
            stop_char |-> IF is_ascii_whitespace(ch) THEN " " ELSE ch]

\* the last group, still in ip_part when the scan stops (lines 462-481)
Ip6LastPart(r) ==
    IF r.err # "" THEN r
    ELSE IF Len(r.ip_part) # 0
      THEN IF r.ip_pos < 8
             THEN IF r.ip4_pos = 0
                    THEN [r EXCEPT !.ip[r.ip_pos] = from_str_radix16(r.ip_part),
                                   !.ip_pos = @ + 1]
                  ELSE IF r.ip4_pos = 3
                    THEN IF parse_u8(r.ip_part) = -1 THEN Ip6Err(r.pos)
                         ELSE [r EXCEPT !.ip = Ip6LowOctet(r.ip, r.ip_pos, r.ip_part),
                                        !.ip_pos = @ + 1]
                  ELSE Ip6Err(r.pos)
             ELSE Ip6Err(r.pos)
      ELSE r

\* ip.copy_within(zero_group_pos..ip_pos, zero_group_pos + 8 - ip_pos), then
\* ip[zero_group_pos..zero_group_pos + 8 - ip_pos].fill(0)
Ip6ExpandZeroGroup(r) ==
    IF r.err # "" THEN r
    ELSE IF r.zero_group_pos # NoZeroGroup /\ r.zero_group_pos < r.ip_pos
      THEN IF r.ip_pos < 7
             THEN LET z == r.zero_group_pos
                      shift == 8 - r.ip_pos
                      copied == [k \in 0..7 |->
                                    IF k >= z + shift /\ k < r.ip_pos + shift
                                      THEN r.ip[k - shift] ELSE r.ip[k]]
                  IN  [r EXCEPT !.ip = [k \in 0..7 |->
                                           IF k >= z /\ k < z + shift THEN 0 ELSE copied[k]]]
             ELSE Ip6Err(r.pos)
      ELSE r

\* lines 491-498
Ip6Return(r) ==
    IF r.err # "" THEN r
    ELSE IF r.ip_pos # 0 \/ r.zero_group_pos # NoZeroGroup
      THEN [err |-> "", addr |-> r.ip, stop_char |-> r.stop_char, pos |-> r.pos]
    ELSE Ip6Err(r.pos)

ip6(s, i) ==
    Ip6Return(Ip6ExpandZeroGroup(Ip6LastPart(
        Ip6Loop(s, i, [k \in 0..7 |-> 0], 0, 0, <<>>, NoZeroGroup))))

----------------------------------------------------------------------------
(* Variable::parse, Variable::parse_exp and SPFParser::macro_string *)

VariableLetter(l) ==
    CASE l \in {"s", "S"} -> "Sender"
      [] l \in {"l", "L"} -> "SenderLocalPart"
      [] l \in {"o", "O"} -> "SenderDomainPart"
      [] l \in {"d", "D"} -> "Domain"
      [] l \in {"i", "I"} -> "Ip"
      [] l \in {"p", "P"} -> "ValidatedDomain"
      [] l \in {"v", "V"} -> "IpVersion"
      [] l \in {"h", "H"} -> "HeloDomain"
      [] l \in {"c", "C"} -> "SmtpIp"
      [] l \in {"r", "R"} -> "HostDomain"
      [] l \in {"t", "T"} -> "CurrentTime"

\* Variable::parse with the escape flag never set
VariableParseNoEscape(l) ==
    IF l \in {"s", "l", "o", "d", "i", "p", "v", "h", "S", "L", "O", "D", "I", "P", "V", "H"}
      THEN [some |-> TRUE, letter |-> VariableLetter(l), escape |-> FALSE]
    ELSE [some |-> FALSE]

Variable_parse(l) ==
    IF l \in {"s", "l", "o", "d", "i", "p", "v", "h"}
      THEN [some |-> TRUE, letter |-> VariableLetter(l), escape |-> FALSE]
    ELSE IF l \in {"S", "L", "O", "D", "I", "P", "V", "H"}
      THEN [some |-> TRUE, letter |-> VariableLetter(l), escape |-> TRUE]
    ELSE [some |-> FALSE]

Variable_parse_exp(l) ==
    IF l \in {"s", "l", "o", "d", "i", "p", "v", "h", "c", "r", "t"}
      THEN [some |-> TRUE, letter |-> VariableLetter(l), escape |-> FALSE]
    ELSE IF l \in {"S", "L", "O", "D", "I", "P", "V", "H", "C", "R", "T"}
      THEN [some |-> TRUE, letter |-> VariableLetter(l), escape |-> TRUE]
    ELSE [some |-> FALSE]

MacroNone == [kind |-> "None"]
MacroLiteral(bytes) == [kind |-> "Literal", bytes |-> bytes]
MacroList(items) == [kind |-> "List", items |-> items]

\* the u64 bitmap delimiters as the set of its set bits: 1u64 << (ch - b'+')
DelimiterBit(ch) == Ord(ch) - Ord("+")

\* the inner loop of the `{` arm (lines 308-328); the input ending ends the loop
RECURSIVE MacroVarLoop(_, _, _, _, _)
MacroVarLoop(s, i, num_parts, reverse, delimiters) ==
    IF i >= Len(s)
      THEN [err |-> "", pos |-> i, num_parts |-> num_parts, reverse |-> reverse,
            delimiters |-> delimiters]
    ELSE
      LET ch == s[i + 1] IN
      IF ch \in Digit
        THEN MacroVarLoop(s, i + 1, u32_mul10_add(num_parts, DigitVal(ch)), reverse, delimiters)
      ELSE IF ch \in {"r", "R"}
        THEN MacroVarLoop(s, i + 1, num_parts, TRUE, delimiters)
      ELSE IF ch = "}"
        THEN [err |-> "", pos |-> i + 1, num_parts |-> num_parts, reverse |-> reverse,
              delimiters |-> delimiters]
      ELSE IF ch \in {".", "-", "+", ",", "/", "_", "="}
        THEN MacroVarLoop(s, i + 1, num_parts, reverse, delimiters \cup {DelimiterBit(ch)})
      ELSE [err |-> "InvalidMacro", pos |-> i + 1]

\* lines 330-340: the default delimiter and the Variable pushed
MacroVariablePush(v, r) ==
    IF r.err # "" THEN r
    ELSE [err |-> "", pos |-> r.pos,
          var |-> [kind |-> "Variable", letter |-> v.letter, num_parts |-> r.num_parts,
                   reverse |-> r.reverse, escape |-> v.escape,
                   delimiters |-> IF r.delimiters = {} THEN {DelimiterBit(".")}
                                  ELSE r.delimiters]]

\* lines 293-303: the variable letter, v what Variable::parse made of it
MacroVariableLetter(s, i, v) ==
    IF ~v.some THEN [err |-> "InvalidMacro", pos |-> i + 1]
    ELSE MacroVariablePush(v, MacroVarLoop(s, i + 1, <<0, 0>>, FALSE, {}))

\* the `{` arm once the literal is flushed (lines 293-340): the variable or the error
MacroVariable(s, i, exp) ==
    IF i >= Len(s) THEN [err |-> "InvalidMacro", pos |-> i]
    ELSE MacroVariableLetter(s, i, IF ~exp THEN Variable_parse(s[i + 1])
                                   ELSE Variable_parse_exp(s[i + 1]))

\* lines 288-291: the literal run is flushed when a variable begins
MacroFlush(literal, macro_string) ==
    IF literal # <<>> THEN Append(macro_string, MacroLiteral(literal)) ELSE macro_string

\* the escapes left as they are written
MacroEscapeAsWritten(ch) == <<"%", ch>>

\* what the byte after a `%` adds to the literal run (lines 273-286)
MacroEscape(ch) ==
    CASE ch = "%" -> <<"%">>
      [] ch = "_" -> <<" ">>
      [] ch = "-" -> <<"%", "2", "0">>

\* the scan of macro_string (lines 266-358): the fragments, the pending literal, the stop
RECURSIVE MacroLoop(_, _, _, _, _, _)
RECURSIVE MacroLoopVariable(_, _, _, _)
MacroLoopVariable(s, exp, flushed, v) ==
    IF v.err # "" THEN v
    ELSE MacroLoop(s, v.pos, exp, FALSE, <<>>, Append(flushed, v.var))

MacroLoop(s, i, exp, last_is_pct, literal, macro_string) ==
    IF i >= Len(s)
      THEN [err |-> "", pos |-> i, stop_char |-> " ", literal |-> literal,
            macro_string |-> macro_string]
    ELSE
      LET ch == s[i + 1] IN
      IF ch = "%"
        THEN IF last_is_pct
               THEN MacroLoop(s, i + 1, exp, FALSE, literal \o MacroEscape(ch), macro_string)
               ELSE MacroLoop(s, i + 1, exp, TRUE, literal, macro_string)
      ELSE IF ch = "_" /\ last_is_pct
        THEN MacroLoop(s, i + 1, exp, FALSE, literal \o MacroEscape(ch), macro_string)
      ELSE IF ch = "-" /\ last_is_pct
        THEN MacroLoop(s, i + 1, exp, FALSE, literal \o MacroEscape(ch), macro_string)
      ELSE IF ch = "{" /\ last_is_pct
        THEN MacroLoopVariable(s, exp, MacroFlush(literal, macro_string),
                               MacroVariable(s, i + 1, exp))
      ELSE IF ch = "/" /\ ~exp
        THEN [err |-> "", pos |-> i + 1, stop_char |-> ch, literal |-> literal,
              macro_string |-> macro_string]
      ELSE IF last_is_pct
        THEN [err |-> "InvalidMacro", pos |-> i + 1]
      ELSE IF ~is_ascii_whitespace(ch) \/ exp
        THEN MacroLoop(s, i + 1, exp, FALSE, Append(literal, ch), macro_string)
      ELSE [err |-> "", pos |-> i + 1, stop_char |-> " ", literal |-> literal,
            macro_string |-> macro_string]

\* lines 360-362: the last literal run joins the fragments
MacroLastLiteral(r) ==
    IF r.err # "" THEN r
    ELSE [err |-> "", pos |-> r.pos, stop_char |-> r.stop_char,
          macro_string |-> MacroFlush(r.literal, r.macro_string)]

\* the fragments collected when the match on their number is reached
MacroFragments(s, i, exp) == MacroLastLiteral(MacroLoop(s, i, exp, FALSE, <<>>, <<>>))

\* the fragments always wrapped in a List
MacroCollapseWrapped(fragments) == [err |-> "", macro |-> MacroList(fragments)]

\* match macro_string.len() (lines 364-368)
MacroCollapse(fragments) ==
    CASE Len(fragments) = 1 -> [err |-> "", macro |-> fragments[1]]
      [] Len(fragments) = 0 -> [err |-> "ParseFailed"]
      [] OTHER -> [err |-> "", macro |-> MacroList(fragments)]

MacroReturn(r, c) ==
    IF c.err # "" THEN [err |-> c.err, pos |-> r.pos]
    ELSE [err |-> "", macro |-> c.macro, stop_char |-> r.stop_char, pos |-> r.pos]

MacroResult(r) ==
    IF r.err # "" THEN [err |-> r.err, pos |-> r.pos]
    ELSE MacroReturn(r, MacroCollapse(r.macro_string))

macro_string(s, i, exp) == MacroResult(MacroFragments(s, i, exp))

----------------------------------------------------------------------------
(* TagParser::key and TagParser::match_bytes (crate::common::parse), as    *)
(* SPF::parse uses them: the key is the bytes before the first `=`, and    *)
(* match_bytes consumes the bytes given when they are the next ones.       *)

V == <<"v">>

RECURSIVE key(_, _)
key(s, i) ==
    IF i >= Len(s) THEN [some |-> FALSE, pos |-> i]
    ELSE IF s[i + 1] = "=" THEN [some |-> TRUE, key |-> <<>>, pos |-> i + 1]
    ELSE LET r == key(s, i + 1) IN
         IF r.some THEN [r EXCEPT !.key = <<s[i + 1]>> \o @] ELSE r

match_bytes(s, i, bytes) ==
    IF i + Len(bytes) <= Len(s) /\ SubSeq(s, i + 1, i + Len(bytes)) = bytes
      THEN [matched |-> TRUE, pos |-> i + Len(bytes)]
      ELSE [matched |-> FALSE, pos |-> Len(s)]

----------------------------------------------------------------------------
(* SPF::parse *)

\* the version check without the boundary after spf1
ParseVersionValueNoBoundary(s, m) ==
    IF ~m.matched THEN [err |-> "InvalidVersion", pos |-> m.pos]
    ELSE [err |-> "", pos |-> Min(m.pos + 1, Len(s))]

\* lines 15-19, m what match_bytes(b"spf1") returned
ParseVersionValue(s, m) ==
    IF ~m.matched THEN [err |-> "InvalidVersion", pos |-> m.pos]
    ELSE IF m.pos < Len(s) /\ ~is_ascii_whitespace(s[m.pos + 1])
      THEN [err |-> "InvalidVersion", pos |-> m.pos + 1]
    ELSE [err |-> "", pos |-> Min(m.pos + 1, Len(s))]

\* lines 13-14, k what key() returned
ParseVersionKey(s, k) ==
    IF ~(k.some /\ k.key = V) THEN [err |-> "InvalidRecord", pos |-> k.pos]
    ELSE ParseVersionValue(s, match_bytes(s, k.pos, <<"s", "p", "f", "1">>))

\* the version check (lines 12-19): the error, or "" and the cursor
ParseVersionTag(s) == ParseVersionKey(s, key(s, 0))

Directive(qualifier, mechanism) == [qualifier |-> qualifier, mechanism |-> mechanism]

ArmFailed(e, i) == [err |-> e, pos |-> i]
ArmDirective(d, i) == [err |-> "", pos |-> i, push |-> "directive", item |-> d]
ArmModifier(m, i) == [err |-> "", pos |-> i, push |-> "modifier", item |-> m]
ArmNothing(i) == [err |-> "", pos |-> i, push |-> "nothing"]

AMxMechanism(term, macro, l1, l2) ==
    [kind |-> IF term = A THEN "A" ELSE "Mx", macro_string |-> macro,
     ip4_cidr_length |-> l1, ip6_cidr_length |-> l2]

\* A | MX once dual_cidr_length returned c (lines 40-42, 48-50, 55-70)
ArmAMxCidr(t, macro, c) ==
    IF c.err # "" THEN ArmFailed(c.err, c.pos)
    ELSE ArmDirective(Directive(t.qualifier, AMxMechanism(t.term, macro, c.l1, c.l2)), c.pos)

\* A | MX once macro_string returned m (lines 37-45, 55-70)
ArmAMxMacro(s, t, m) ==
    IF m.err # "" THEN ArmFailed(m.err, m.pos)
    ELSE IF m.stop_char = "/" THEN ArmAMxCidr(t, m.macro, dual_cidr_length(s, m.pos))
    ELSE IF m.stop_char # " " THEN ArmFailed("ParseFailed", m.pos)
    ELSE ArmDirective(Directive(t.qualifier, AMxMechanism(t.term, m.macro, 32, 128)), m.pos)

\* A | MX (lines 29-71)
ArmAMx(s, t) ==
    IF t.stop_char = " "
      THEN ArmDirective(Directive(t.qualifier, AMxMechanism(t.term, MacroNone, 32, 128)), t.pos)
    ELSE IF t.stop_char \in {":", "="} THEN ArmAMxMacro(s, t, macro_string(s, t.pos, FALSE))
    ELSE IF t.stop_char = "/" THEN ArmAMxCidr(t, MacroNone, dual_cidr_length(s, t.pos))
    ELSE ArmFailed("ParseFailed", t.pos)

\* ALL (lines 72-79)
ArmAll(s, t) ==
    IF t.stop_char = " "
      THEN ArmDirective(Directive(t.qualifier, [kind |-> "All"]), t.pos)
      ELSE ArmFailed("ParseFailed", t.pos)

\* INCLUDE | EXISTS once macro_string returned m (lines 84-96)
ArmIncludeExistsMacro(t, m) ==
    IF m.err # "" THEN ArmFailed(m.err, m.pos)
    ELSE IF m.stop_char = " "
      THEN ArmDirective(Directive(t.qualifier,
               [kind |-> IF t.term = INCLUDE THEN "Include" ELSE "Exists",
                macro_string |-> m.macro]), m.pos)
    ELSE ArmFailed("ParseFailed", m.pos)

\* INCLUDE | EXISTS (lines 80-97)
ArmIncludeExists(s, t) ==
    IF t.stop_char # ":" THEN ArmFailed("ParseFailed", t.pos)
    ELSE ArmIncludeExistsMacro(t, macro_string(s, t.pos, FALSE))

\* IP4 and IP6 once cidr_length returned c (lines 105, 109-112 and 121, 125-128)
ArmIpCidr(t, kind, addr, default_length, c) ==
    IF c.err # "" THEN ArmFailed(c.err, c.pos)
    ELSE ArmDirective(Directive(t.qualifier,
             [kind |-> kind, addr |-> addr, cidr_length |-> Min(default_length, c.val)]),
             c.pos)

\* IP4 and IP6 (lines 98-129): address what ip4 or ip6 returned, default_length 32 or 128
ArmIp(s, t, kind, address, default_length) ==
    IF address.err # "" THEN ArmFailed(address.err, address.pos)
    ELSE IF address.stop_char = "/"
      THEN ArmIpCidr(t, kind, address.addr, default_length, cidr_length(s, address.pos))
    ELSE IF address.stop_char # " " THEN ArmFailed("ParseFailed", address.pos)
    ELSE ArmDirective(Directive(t.qualifier,
             [kind |-> kind, addr |-> address.addr, cidr_length |-> default_length]),
             address.pos)

ArmIp4(s, t) ==
    IF t.stop_char # ":" THEN ArmFailed("ParseFailed", t.pos)
    ELSE ArmIp(s, t, "Ip4", ip4(s, t.pos), 32)

ArmIp6(s, t) ==
    IF t.stop_char # ":" THEN ArmFailed("ParseFailed", t.pos)
    ELSE ArmIp(s, t, "Ip6", ip6(s, t.pos), 128)

\* PTR once the optional macro_string returned m (lines 138-143)
ArmPtrMacro(t, m) ==
    IF m.err # "" THEN ArmFailed(m.err, m.pos)
    ELSE IF m.stop_char = " "
      THEN ArmDirective(Directive(t.qualifier, [kind |-> "Ptr", macro_string |-> m.macro]),
                        m.pos)
    ELSE ArmFailed("ParseFailed", m.pos)

\* PTR (lines 130-144)
ArmPtr(s, t) ==
    ArmPtrMacro(t, IF t.stop_char = ":" THEN macro_string(s, t.pos, FALSE)
                   ELSE [err |-> "", macro |-> MacroNone, stop_char |-> t.stop_char,
                         pos |-> t.pos])

\* EXP | REDIRECT once macro_string returned m (lines 149-157)
ArmExpRedirectMacro(t, m) ==
    IF m.err # "" THEN ArmFailed(m.err, m.pos)
    ELSE IF m.stop_char # " " THEN ArmFailed("ParseFailed", m.pos)
    ELSE ArmModifier([kind |-> IF t.term = REDIRECT THEN "Redirect" ELSE "Explanation",
                      macro_string |-> m.macro], m.pos)

\* EXP | REDIRECT (lines 145-158)
ArmExpRedirect(s, t) ==
    IF t.stop_char # "=" THEN ArmFailed("ParseFailed", t.pos)
    ELSE ArmExpRedirectMacro(t, macro_string(s, t.pos, FALSE))

\* any other term once macro_string returned m (lines 160-163)
ArmUnknownMacro(m) ==
    IF m.err # "" THEN ArmFailed(m.err, m.pos)
    ELSE IF m.stop_char # " " THEN ArmFailed("ParseFailed", m.pos)
    ELSE ArmNothing(m.pos)

\* any other term (lines 159-164)
ArmUnknown(s, t) == ArmUnknownMacro(macro_string(s, t.pos, FALSE))

\* match term (line 28)
MatchTerm(s, t) ==
    CASE t.term \in {A, MX} -> ArmAMx(s, t)
      [] t.term = ALL -> ArmAll(s, t)
      [] t.term \in {INCLUDE, EXISTS} -> ArmIncludeExists(s, t)
      [] t.term = IP4 -> ArmIp4(s, t)
      [] t.term = IP6 -> ArmIp6(s, t)
      [] t.term = PTR -> ArmPtr(s, t)
      [] t.term \in {EXP, REDIRECT} -> ArmExpRedirect(s, t)
      [] OTHER -> ArmUnknown(s, t)

\* Vec::push putting the item first
PushFront(list, item) == <<item>> \o list

\* Vec::push
Push(list, item) == Append(list, item)

\* what the arm of a term leaves: the error returned, or the lists and the cursor
TurnArm(dirs, mods, arm) ==
    IF arm.err # ""
      THEN [result |-> arm.err, pos |-> arm.pos, directives |-> dirs, modifiers |-> mods]
    ELSE [result |-> "", pos |-> arm.pos,
          directives |-> IF arm.push = "directive" THEN Push(dirs, arm.item) ELSE dirs,
          modifiers |-> IF arm.push = "modifier" THEN Push(mods, arm.item) ELSE mods]

\* One turn of the record loop (lines 27-168), t what next_term returned: the
\* lists, the cursor, and what parse returned if it did ("Ok" or the Error).
Turn(s, dirs, mods, t) ==
    IF ~t.some
      THEN [result |-> "Ok", pos |-> t.pos, directives |-> dirs, modifiers |-> mods]
      ELSE TurnArm(dirs, mods, MatchTerm(s, t))

RecordLoopTurn(s, i, dirs, mods) == Turn(s, dirs, mods, next_term(s, i))

RECURSIVE RecordLoop(_, _, _, _)
RECURSIVE RecordLoopAfter(_, _)
RecordLoopAfter(s, r) ==
    IF r.result # "" THEN r ELSE RecordLoop(s, r.pos, r.directives, r.modifiers)

RecordLoop(s, i, dirs, mods) == RecordLoopAfter(s, RecordLoopTurn(s, i, dirs, mods))

ParseReturn(r) ==
    IF r.result = "Ok"
      THEN [result |-> "Ok", directives |-> r.directives, modifiers |-> r.modifiers]
      ELSE [result |-> r.result]

ParseAfterVersion(s, v) ==
    IF v.err # "" THEN [result |-> v.err]
    ELSE ParseReturn(RecordLoop(s, v.pos, <<>>, <<>>))

\* SPF::parse as a function of the record: what it returns
SPF_parse(s) == ParseAfterVersion(s, ParseVersionTag(s))

----------------------------------------------------------------------------
(* The records parsed: a version section and up to MaxTerms terms, each    *)
(* after one space, with or without one more term `unknown:foo` inserted   *)
(* before, between or after them.                                          *)

Bytes(str) == [k \in 1..Len(str) |-> SubSeq(str, k, k)]

MaxTerms == 2

Headers ==
    {Bytes("v=spf1"), Bytes("v=spf10"), Bytes("v=spf2"), Bytes("v=spf"),
     Bytes("x=spf1"), Bytes("spf1"), Bytes("v=spf1-all")}

TermPool ==
    {Bytes("a"), Bytes("+mx"), Bytes("-all"), Bytes("?all"), Bytes("~a:x/28"),
     Bytes("+-all"), Bytes("~"), Bytes(""), Bytes("MX"),
     Bytes("a//96"), Bytes("a/"), Bytes("a/33"), Bytes("a/9999"), Bytes("mx//2555"),
     Bytes("ip4:1.2.3.4/24"), Bytes("ip4:1.2.3.4/"), Bytes("ip4:1.2.3.4/999"),
     Bytes("ip6:::1"), Bytes("ip6:::1/"), Bytes("ip6:::1/300"),
     Bytes("exists:%{d}"), Bytes("ptr"), Bytes("redirect=x"), Bytes("exp=%{d}.e"),
     Bytes("unknown"), Bytes("all:x"), Bytes(":x")}

UnknownTerm == Bytes("unknown:foo")

TermSeqs == UNION {[1..n -> TermPool] : n \in 0..MaxTerms}

InsertAt(ts, k, t) == SubSeq(ts, 1, k - 1) \o <<t>> \o SubSeq(ts, k, Len(ts))
RemoveAt(ts, k) == SubSeq(ts, 1, k - 1) \o SubSeq(ts, k + 1, Len(ts))

RECURSIVE Join(_)
Join(ts) == IF ts = <<>> THEN <<>> ELSE <<" ">> \o Head(ts) \o Join(Tail(ts))

BuildRecord(h, ts) == h \o Join(ts)

NoTerm == [some |-> FALSE, pos |-> 0]
NoReturn == [err |-> ""]
NoAddress == <<>>

\* lines 399-405: the locals of ip6 at its start; flow tells how the last
\* step left: "next", "break", "err" or "panic"
Ip6Locals ==
    [stop_char |-> " ", ip |-> [k \in 0..7 |-> 0], ip_pos |-> 0, ip4_pos |-> 0,
     ip_part |-> [k \in 0..7 |-> "nul"], ip_part_pos |-> 0,
     zero_group_pos |-> NoZeroGroup, flow |-> "next"]

\* AuthenticatedMessage::parse is not called, and no second parse runs
EmptyScan == [headers |-> <<>>, body |-> <<>>]
NoTwin == [of |-> "none"]

NoMessageParse ==
    /\ raw_message = EmptyScan
    /\ unstable_ties = FALSE
    /\ next_header = 0
    /\ message = <<>>
    /\ has_arc_errors = FALSE
    /\ msg_pc = "idle"

Init ==
    /\ NoMessageParse
    /\ twin = NoTwin
    /\ ip6_locals = Ip6Locals
    /\ header \in Headers
    /\ \E base \in TermSeqs :
         \E k \in 0..(Len(base) + 1) :
            /\ header # Bytes("v=spf1") => Len(base) <= 1 /\ k = 0
            /\ unknown_at = k
            /\ terms = IF k = 0 THEN base ELSE InsertAt(base, k, UnknownTerm)
    /\ written = NoAddress
    /\ record = BuildRecord(header, terms)
    /\ pos = 0
    /\ pc = "version"
    /\ directives = <<>>
    /\ modifiers = <<>>
    /\ result = ""
    /\ term_start = 0
    /\ last_term = NoTerm
    /\ is_exp = FALSE
    /\ frags = NoReturn
    /\ ret = NoReturn

\* the version check returned v
ParseVersionStep(v) ==
    /\ pos' = v.pos
    /\ IF v.err # ""
         THEN pc' = "done" /\ result' = v.err
         ELSE pc' = "terms" /\ result' = ""

\* lines 12-25: the version check, then the empty record
ParseVersion ==
    /\ pc = "version"
    /\ ParseVersionStep(ParseVersionTag(record))
    /\ UNCHANGED <<msg_vars, twin, ip6_locals>>
    /\ UNCHANGED <<header, terms, unknown_at, written, record, directives, modifiers, term_start, last_term,
                   is_exp, frags, ret>>

\* a turn of the record loop left r
TurnStep(r) ==
    /\ pos' = r.pos
    /\ directives' = r.directives
    /\ modifiers' = r.modifiers
    /\ result' = r.result
    /\ pc' = IF r.result # "" THEN "done" ELSE "terms"

\* next_term returned the term t, and its arm runs
ParseTermStep(t) ==
    /\ t.some
    /\ TurnStep(Turn(record, directives, modifiers, t))
    /\ last_term' = t

\* next_term returned None (t), and parse returns Ok(spf)
ReturnOkStep(t) ==
    /\ ~t.some
    /\ TurnStep(Turn(record, directives, modifiers, t))
    /\ last_term' = t

\* lines 27-166: one term of the record
ParseTerm ==
    /\ pc = "terms"
    /\ ParseTermStep(next_term(record, pos))
    /\ term_start' = pos
    /\ UNCHANGED <<msg_vars, twin, ip6_locals>>
    /\ UNCHANGED <<header, terms, unknown_at, written, record, is_exp, frags, ret>>

\* lines 27 and 168: the end of the record loop
ReturnOk ==
    /\ pc = "terms"
    /\ ReturnOkStep(next_term(record, pos))
    /\ term_start' = pos
    /\ UNCHANGED <<msg_vars, twin, ip6_locals>>
    /\ UNCHANGED <<header, terms, unknown_at, written, record, is_exp, frags, ret>>

Next == ParseVersion \/ ParseTerm \/ ReturnOk

Spec == Init /\ [][Next]_vars

----------------------------------------------------------------------------
(* macro_string called on its own: the argument is a literal prefix, one   *)
(* reference `%{` letter transformers `}` with up to MaxTransformers       *)
(* transformers, and a literal suffix; or up to MaxPieces plain bytes and  *)
(* escapes; or one of MacroPool.                                           *)

MaxTransformers == 3

MacroLetters == {"l", "D", "c", "T", "q"}
TransformerPool == {"0", "2", "r", "R", "+", "_"}
TransformerSeqs == UNION {[1..n -> TransformerPool] : n \in 0..MaxTransformers}

MacroPool ==
    {Bytes("%{l1r+}.%{d}"), Bytes("%{d4294967295}"), Bytes("%{d4294967296}"),
     Bytes("%{d99999999999}"), Bytes("%{o,=_/}"), Bytes("%{i-.}"), Bytes("%{h1R2}"),
     Bytes(""), Bytes("x"), Bytes("%"), Bytes("%%"), Bytes("%_"), Bytes("%-"),
     Bytes("x%"), Bytes("%{"), Bytes("%{d"), Bytes("%{d1"), Bytes("%x"), Bytes("%/"),
     Bytes("a/b"), Bytes("a b"), Bytes("%{d}/24"), Bytes("%{d }"), Bytes("%{d}%{i}"),
     Bytes("%{l}._%-spf_%_verify%%.%{d}")}

MaxPieces == 3

PiecePool == {Bytes("a"), Bytes("."), Bytes("%%"), Bytes("%_"), Bytes("%-")}
PieceSeqs == UNION {[1..n -> PiecePool] : n \in 0..MaxPieces}

RECURSIVE Concat(_)
Concat(ps) == IF ps = <<>> THEN <<>> ELSE Head(ps) \o Concat(Tail(ps))

MacroInputs ==
    MacroPool \cup {Concat(ps) : ps \in PieceSeqs} \cup
    {prefix \o <<"%", "{", l>> \o t \o <<"}">> \o suffix :
        prefix \in {Bytes(""), Bytes("x")}, l \in MacroLetters,
        t \in TransformerSeqs, suffix \in {Bytes(""), Bytes(".y")}}

InitMacro ==
    /\ NoMessageParse
    /\ twin = NoTwin
    /\ ip6_locals = Ip6Locals
    /\ record \in MacroInputs
    /\ is_exp \in BOOLEAN
    /\ pc = "macro_string"
    /\ pos = 0
    /\ header = <<>>
    /\ terms = <<>>
    /\ unknown_at = 0
    /\ written = NoAddress
    /\ directives = <<>>
    /\ modifiers = <<>>
    /\ result = ""
    /\ term_start = 0
    /\ last_term = NoTerm
    /\ frags = NoReturn
    /\ ret = NoReturn

\* the scan of macro_string left r
MacroStep(r) ==
    /\ frags' = r
    /\ ret' = MacroResult(r)
    /\ pos' = r.pos

\* record.macro_string(is_exp)
CallMacroString ==
    /\ pc = "macro_string"
    /\ MacroStep(MacroFragments(record, pos, is_exp))
    /\ pc' = "done"
    /\ UNCHANGED <<msg_vars, twin, ip6_locals>>
    /\ UNCHANGED <<header, terms, unknown_at, written, record, directives, modifiers, result,
                   term_start, last_term, is_exp>>

NextMacro == CallMacroString

SpecMacro == InitMacro /\ [][NextMacro]_vars

----------------------------------------------------------------------------
(* ip4 called on its own: the text is up to MaxOctets runs of digits with  *)
(* dots between them, and what follows them.                               *)

MaxOctets == 5

OctetPool ==
    {Bytes(""), Bytes("0"), Bytes("38"), Bytes("255"), Bytes("256"), Bytes("999999999")}

Ip4Stops == {Bytes(""), Bytes(" "), Bytes("/")}

RECURSIVE JoinWith(_, _)
JoinWith(ps, sep) ==
    IF ps = <<>> THEN <<>>
    ELSE IF Len(ps) = 1 THEN ps[1]
    ELSE ps[1] \o sep \o JoinWith(Tail(ps), sep)

Ip4Text(a) == JoinWith(a.octets, <<".">>) \o a.stop

Ip4Inputs ==
    {[octets |-> o, stop |-> t] :
        o \in UNION {[1..n -> OctetPool] : n \in 1..MaxOctets}, t \in Ip4Stops}

InitIp4 ==
    /\ NoMessageParse
    /\ twin = NoTwin
    /\ ip6_locals = Ip6Locals
    /\ written \in Ip4Inputs
    /\ record = Ip4Text(written)
    /\ pc = "ip4"
    /\ pos = 0
    /\ header = <<>>
    /\ terms = <<>>
    /\ unknown_at = 0
    /\ directives = <<>>
    /\ modifiers = <<>>
    /\ result = ""
    /\ term_start = 0
    /\ last_term = NoTerm
    /\ is_exp = FALSE
    /\ frags = NoReturn
    /\ ret = NoReturn

\* the sub-parser called returned r
ReturnStep(r) ==
    /\ ret' = r
    /\ pos' = r.pos

\* record.ip4()
CallIp4 ==
    /\ pc = "ip4"
    /\ ReturnStep(ip4(record, pos))
    /\ pc' = "done"
    /\ UNCHANGED <<msg_vars, twin, ip6_locals>>
    /\ UNCHANGED <<header, terms, unknown_at, written, record, directives, modifiers, result,
                   term_start, last_term, is_exp, frags>>

NextIp4 == CallIp4

SpecIp4 == InitIp4 /\ [][NextIp4]_vars

----------------------------------------------------------------------------
(* ip6 called on its own: the text is up to MaxIp6Pieces pieces, each a    *)
(* group of hex digits or `::`, with `:` between two groups, then nothing, *)
(* a dotted quad or five dotted octets, then nothing or a space.           *)

MaxIp6Pieces == 9

\* the value of the group written as piece k, in the two styles of writing
GroupValues ==
    <<<<0, 3512, 65535, 10, 43981, 1, 2048, 257, 4660, 8, 15>>,
      <<61441, 0, 1, 0, 26505, 0, 9029, 65535, 0, 7, 0>>>>

Ip6Pieces == {"group", "::"}

QuadPool == {<<>>, <<13, 1, 68, 3>>, <<129, 144, 52, 38>>, <<13, 1, 68, 3, 4>>}

HexDigitsLower == Bytes("0123456789abcdef")
HexDigitsUpper == Bytes("0123456789ABCDEF")

\* n written in base 16 without leading zeros
RECURSIVE ToHex(_, _)
ToHex(n, digits) ==
    IF n < 16 THEN <<digits[n + 1]>>
    ELSE ToHex(n \div 16, digits) \o <<digits[(n % 16) + 1]>>

\* n written in base 10 without leading zeros
RECURSIVE ToDec(_)
ToDec(n) ==
    IF n < 10 THEN <<HexDigitsLower[n + 1]>>
    ELSE ToDec(n \div 10) \o <<HexDigitsLower[(n % 10) + 1]>>

QuadText(q) == JoinWith([k \in 1..Len(q) |-> ToDec(q[k])], <<".">>)

\* the value of piece k of a, a group
GroupAt(a, k) == GroupValues[a.style][k]

PieceText(a, k) ==
    IF a.pieces[k] = "::" THEN <<":", ":">>
    ELSE ToHex(GroupAt(a, k), IF a.style = 1 THEN HexDigitsUpper ELSE HexDigitsLower)

\* the pieces from k on, a `:` between two groups
RECURSIVE PiecesText(_, _)
PiecesText(a, k) ==
    IF k > Len(a.pieces) THEN <<>>
    ELSE PieceText(a, k)
         \o (IF k < Len(a.pieces) /\ a.pieces[k] = "group" /\ a.pieces[k + 1] = "group"
               THEN <<":">> ELSE <<>>)
         \o PiecesText(a, k + 1)

\* what is written around the pieces and the dotted quad: nothing, a `:`
\* before them, a `:` after them, or one more group after the dotted quad
Ip6Affixes == {"none", "lead", "trail", "group"}

Ip6Text(a) ==
    (IF a.affix = "lead" THEN <<":">> ELSE <<>>)
    \o PiecesText(a, 1)
    \o (IF a.quad # <<>> /\ a.pieces # <<>> /\ a.pieces[Len(a.pieces)] = "group"
          THEN <<":">> ELSE <<>>)
    \o QuadText(a.quad)
    \o (IF a.affix = "trail" THEN <<":">> ELSE IF a.affix = "group" THEN <<":", "5">> ELSE <<>>)
    \o (IF a.space THEN <<" ">> ELSE <<>>)

Ip6Inputs ==
    {a \in [pieces : UNION {[1..n -> Ip6Pieces] : n \in 0..MaxIp6Pieces},
            quad : QuadPool, space : BOOLEAN, style : {1, 2}, affix : Ip6Affixes] :
        /\ a.affix = "group" => a.quad # <<>>
        /\ a.affix # "none" => a.style = 1 /\ ~a.space}

InitIp6 ==
    /\ NoMessageParse
    /\ twin = NoTwin
    /\ ip6_locals = Ip6Locals
    /\ written \in Ip6Inputs
    /\ record = Ip6Text(written)
    /\ pc = "ip6"
    /\ pos = 0
    /\ header = <<>>
    /\ terms = <<>>
    /\ unknown_at = 0
    /\ directives = <<>>
    /\ modifiers = <<>>
    /\ result = ""
    /\ term_start = 0
    /\ last_term = NoTerm
    /\ is_exp = FALSE
    /\ frags = NoReturn
    /\ ret = NoReturn

\* record.ip6()
CallIp6 ==
    /\ pc = "ip6"
    /\ ReturnStep(ip6(record, pos))
    /\ pc' = "done"
    /\ UNCHANGED <<msg_vars, twin, ip6_locals>>
    /\ UNCHANGED <<header, terms, unknown_at, written, record, directives, modifiers, result,
                   term_start, last_term, is_exp, frags>>

NextIp6 == CallIp6

SpecIp6 == InitIp6 /\ [][NextIp6]_vars

----------------------------------------------------------------------------
(* ip6 followed byte by byte, every array access with its bounds check.    *)

\* an index into an array of len elements
InBounds(idx, len) == idx >= 0 /\ idx < len

Ip6Panics(l) == [l EXCEPT !.flow = "panic"]
Ip6Fails(l) == [l EXCEPT !.flow = "err"]

\* `ip_pos <= 8` in the place of `ip_pos < 8`
Ip6HasRoomForNine(l) == l.ip_pos <= 8

\* lines 418, 437, 463: ip_pos < 8
Ip6HasRoom(l) == l.ip_pos < 8

\* &ip_part[..ip_part_pos]
Ip6PartInBounds(l) == l.ip_part_pos >= 0 /\ l.ip_part_pos <= 8
Ip6Part(l) == [k \in 1..l.ip_part_pos |-> l.ip_part[k - 1]]

\* lines 409-416
Ip6HexDigit(l, ch) ==
    IF l.ip_part_pos < 4
      THEN IF InBounds(l.ip_part_pos, 8)
             THEN [l EXCEPT !.ip_part[l.ip_part_pos] = ch, !.ip_part_pos = @ + 1]
             ELSE Ip6Panics(l)
      ELSE Ip6Fails(l)

\* lines 417-435
Ip6Colon(l) ==
    IF Ip6HasRoom(l)
      THEN IF l.ip_part_pos # 0
             THEN IF ~Ip6PartInBounds(l) \/ ~InBounds(l.ip_pos, 8) THEN Ip6Panics(l)
                  ELSE IF from_str_radix16(Ip6Part(l)) >= U16 THEN Ip6Fails(l)
                  ELSE [l EXCEPT !.ip[l.ip_pos] = from_str_radix16(Ip6Part(l)),
                                 !.ip_part_pos = 0,
                                 !.ip_pos = @ + 1]
           ELSE IF l.zero_group_pos = NoZeroGroup
             THEN [l EXCEPT !.zero_group_pos = l.ip_pos]
           ELSE IF l.zero_group_pos # l.ip_pos THEN Ip6Fails(l)
           ELSE l
      ELSE Ip6Fails(l)

\* lines 436-454
Ip6Dot(l) ==
    IF Ip6HasRoom(l) /\ l.ip_part_pos > 0
      THEN IF ~Ip6PartInBounds(l) THEN Ip6Panics(l)
           ELSE IF parse_u8(Ip6Part(l)) = -1 THEN Ip6Fails(l)
           ELSE IF ~InBounds(l.ip_pos, 8) THEN Ip6Panics(l)
           ELSE IF l.ip4_pos % 2 = 1
             THEN [l EXCEPT !.ip[l.ip_pos] = BitOr((@ * 256) % U16, parse_u8(Ip6Part(l))),
                            !.ip_part_pos = 0,
                            !.ip_pos = @ + 1,
                            !.ip4_pos = @ + 1]
             ELSE [l EXCEPT !.ip[l.ip_pos] = parse_u8(Ip6Part(l)),
                            !.ip_part_pos = 0,
                            !.ip4_pos = @ + 1]
      ELSE Ip6Fails(l)

\* lines 455-458
Ip6Stop(l, ch) ==
    [l EXCEPT !.stop_char = IF is_ascii_whitespace(ch) THEN " " ELSE ch, !.flow = "break"]

\* lines 407-459: one turn of the loop, on the byte ch
Ip6Byte(l, ch) ==
    IF ch \in HexDigit THEN Ip6HexDigit(l, ch)
    ELSE IF ch = ":" THEN Ip6Colon(l)
    ELSE IF ch = "." THEN Ip6Dot(l)
    ELSE Ip6Stop(l, ch)

\* lines 462-481
Ip6Last(l) ==
    IF l.ip_part_pos # 0
      THEN IF Ip6HasRoom(l)
             THEN IF ~Ip6PartInBounds(l) \/ ~InBounds(l.ip_pos, 8) THEN Ip6Panics(l)
                  ELSE IF l.ip4_pos = 0
                    THEN IF from_str_radix16(Ip6Part(l)) >= U16 THEN Ip6Fails(l)
                         ELSE [l EXCEPT !.ip[l.ip_pos] = from_str_radix16(Ip6Part(l)),
                                        !.ip_pos = @ + 1]
                  ELSE IF l.ip4_pos = 3
                    THEN IF parse_u8(Ip6Part(l)) = -1 THEN Ip6Fails(l)
                         ELSE [l EXCEPT !.ip[l.ip_pos] =
                                            BitOr((@ * 256) % U16, parse_u8(Ip6Part(l))),
                                        !.ip_pos = @ + 1]
                  ELSE Ip6Fails(l)
             ELSE Ip6Fails(l)
      ELSE l

\* ip.copy_within(src_start..src_end, dest) on 8 groups
copy_within_in_bounds(src_start, src_end, dest) ==
    /\ src_start <= src_end
    /\ src_end <= 8
    /\ dest >= 0
    /\ dest + (src_end - src_start) <= 8

copy_within(ip, src_start, src_end, dest) ==
    [k \in 0..7 |-> IF k >= dest /\ k < dest + (src_end - src_start)
                      THEN ip[src_start + (k - dest)] ELSE ip[k]]

\* ip[from..to].fill(0)
fill_in_bounds(from, to) == from >= 0 /\ from <= to /\ to <= 8

fill(ip, from, to) == [k \in 0..7 |-> IF k >= from /\ k < to THEN 0 ELSE ip[k]]

\* lines 482-489
Ip6Expand(l) ==
    IF l.zero_group_pos # NoZeroGroup /\ l.zero_group_pos < l.ip_pos
      THEN IF l.ip_pos < 7
             THEN IF /\ copy_within_in_bounds(l.zero_group_pos, l.ip_pos,
                                              l.zero_group_pos + 8 - l.ip_pos)
                     /\ fill_in_bounds(l.zero_group_pos, l.zero_group_pos + 8 - l.ip_pos)
                    THEN [l EXCEPT !.ip =
                            fill(copy_within(@, l.zero_group_pos, l.ip_pos,
                                             l.zero_group_pos + 8 - l.ip_pos),
                                 l.zero_group_pos, l.zero_group_pos + 8 - l.ip_pos)]
                    ELSE Ip6Panics(l)
             ELSE Ip6Fails(l)
      ELSE l

\* lines 491-498
Ip6Result(l, i) ==
    IF l.ip_pos # 0 \/ l.zero_group_pos # NoZeroGroup
      THEN [err |-> "", addr |-> l.ip, stop_char |-> l.stop_char, pos |-> i]
      ELSE Ip6Err(i)

MaxScanPieces == 9

\* texts of groups and `::`, with or without four dotted octets, with or
\* without a `:` after them
Ip6ScanWritten ==
    {a \in [pieces : UNION {[1..n -> Ip6Pieces] : n \in 0..MaxScanPieces},
            quad : {<<>>, <<13, 1, 68, 3>>}, space : {FALSE}, style : {1},
            affix : {"none", "trail"}] : TRUE}

\* texts with too many digits, dots, colons or groups, and none at all
Ip6ScanPool ==
    {Bytes(""), Bytes(" "), Bytes("12345"), Bytes("FFFFF:"), Bytes("1234.1"), Bytes("256.1"),
     Bytes("1.2.3.4"), Bytes("::1.2.3.4:5"), Bytes("1:2"), Bytes(":1"), Bytes("1:"),
     Bytes("1.2.3.4.5.6.7.8.9.10.11.12.13.14.15.16.17"),
     Bytes("1.2.3.4.5.6.7.8.9.10.11.12.13.14.15.16:17"),
     Bytes("1:2:3:4:5:6:7:8:9:a"), Bytes("1:2:3:4:5:6:7:8.9"), Bytes(":::::::::"),
     Bytes("1:2:3:4:5:6:7.8.9"), Bytes("::1:2:3:4:5:6:7"), Bytes("1:2:3:4:5:6:7::"),
     Bytes("1:2:3:4:5:6::7.8"), Bytes("a.b"), Bytes("1..2"), Bytes("::ffff:1.2.3.4/96")}

Ip6ScanTexts == {Ip6Text(a) : a \in Ip6ScanWritten} \cup Ip6ScanPool

InitIp6Scan ==
    /\ NoMessageParse
    /\ twin = NoTwin
    /\ ip6_locals = Ip6Locals
    /\ written = NoAddress
    /\ record \in Ip6ScanTexts
    /\ pc = "ip6 loop"
    /\ pos = 0
    /\ header = <<>>
    /\ terms = <<>>
    /\ unknown_at = 0
    /\ directives = <<>>
    /\ modifiers = <<>>
    /\ result = ""
    /\ term_start = 0
    /\ last_term = NoTerm
    /\ is_exp = FALSE
    /\ frags = NoReturn
    /\ ret = NoReturn

\* a step of ip6 left the locals l: it goes on at `on`, fails or panics
Ip6Step(l, i, on) ==
    /\ ip6_locals' = l
    /\ pos' = i
    /\ pc' = IF l.flow = "panic" THEN "panic" ELSE IF l.flow = "err" THEN "done" ELSE on
    /\ ret' = IF l.flow = "err" THEN Ip6Err(i) ELSE ret

Ip6Unchanged ==
    /\ UNCHANGED <<msg_vars, twin>>
    /\ UNCHANGED <<header, terms, unknown_at, written, record, directives, modifiers, result,
                   term_start, last_term, is_exp, frags>>

\* lines 407-459: the loop takes the next byte
Ip6TakeByte ==
    /\ pc = "ip6 loop"
    /\ pos < Len(record)
    /\ Ip6Step(Ip6Byte(ip6_locals, record[pos + 1]), pos + 1,
               IF Ip6Byte(ip6_locals, record[pos + 1]).flow = "break"
                 THEN "ip6 last" ELSE "ip6 loop")
    /\ Ip6Unchanged

\* line 407: the iterator is at its end
Ip6EndOfInput ==
    /\ pc = "ip6 loop"
    /\ pos = Len(record)
    /\ pc' = "ip6 last"
    /\ UNCHANGED <<pos, ret, ip6_locals>>
    /\ Ip6Unchanged

\* lines 462-481
Ip6LastGroup ==
    /\ pc = "ip6 last"
    /\ Ip6Step(Ip6Last(ip6_locals), pos, "ip6 expand")
    /\ Ip6Unchanged

\* lines 482-489
Ip6ZeroGroup ==
    /\ pc = "ip6 expand"
    /\ Ip6Step(Ip6Expand(ip6_locals), pos, "ip6 return")
    /\ Ip6Unchanged

\* lines 491-498
Ip6ReturnResult ==
    /\ pc = "ip6 return"
    /\ ret' = Ip6Result(ip6_locals, pos)
    /\ pc' = "done"
    /\ UNCHANGED <<pos, ip6_locals>>
    /\ Ip6Unchanged

NextIp6Scan == Ip6TakeByte \/ Ip6EndOfInput \/ Ip6LastGroup \/ Ip6ZeroGroup \/ Ip6ReturnResult

SpecIp6Scan == InitIp6Scan /\ [][NextIp6Scan]_vars

----------------------------------------------------------------------------
(* next_term called on its own: the text is one term, written as prefix    *)
(* symbols, a word of up to MaxWordLen bytes or one of the words listed,   *)
(* and what ends it.                                                       *)

MaxWordLen == 3

WordBytes == {"a", "l", "L", "4", "-", "_"}

WordPool ==
    {Bytes("a"), Bytes("mx"), Bytes("all"), Bytes("include"), Bytes("exists"),
     Bytes("ip4"), Bytes("ip6"), Bytes("ptr"), Bytes("exp"), Bytes("redirect"),
     Bytes("A"), Bytes("Mx"), Bytes("aLL"), Bytes("Include"), Bytes("EXISTS"),
     Bytes("iP4"), Bytes("IP6"), Bytes("Ptr"), Bytes("eXp"), Bytes("REDIRECT"),
     Bytes("redirectx"), Bytes("redirec"), Bytes("REDIRECTS"), Bytes("includes"),
     Bytes("exist"), Bytes("ip5"), Bytes("ip"), Bytes("ip46"), Bytes("mx1"),
     Bytes("m.x"), Bytes("a+"), Bytes("all?"), Bytes("%{d}"), Bytes("unknown"),
     Bytes("aaaaaaaaa"), Bytes("xredirect"), Bytes("abcdefghredirect")}

Words == WordPool \cup UNION {[1..n -> WordBytes] : n \in 0..MaxWordLen}

TermPrefixes == {Bytes(""), Bytes("+"), Bytes("-"), Bytes("~"), Bytes("?"), Bytes("+-")}

TermStops == {Bytes(""), Bytes(" "), Bytes(":"), Bytes("="), Bytes("/"), Bytes(":x y")}

TermInputs ==
    {[prefix |-> q, word |-> w, stop |-> t] :
        q \in TermPrefixes, w \in Words, t \in TermStops}

TermInputText(a) == a.prefix \o a.word \o a.stop

InitTerm ==
    /\ NoMessageParse
    /\ twin = NoTwin
    /\ ip6_locals = Ip6Locals
    /\ written \in TermInputs
    /\ record = TermInputText(written)
    /\ pc = "next_term"
    /\ pos = 0
    /\ header = <<>>
    /\ terms = <<>>
    /\ unknown_at = 0
    /\ directives = <<>>
    /\ modifiers = <<>>
    /\ result = ""
    /\ term_start = 0
    /\ last_term = NoTerm
    /\ is_exp = FALSE
    /\ frags = NoReturn
    /\ ret = NoReturn

\* record.next_term()
CallNextTerm ==
    /\ pc = "next_term"
    /\ ReturnStep(next_term(record, pos))
    /\ pc' = "done"
    /\ UNCHANGED <<msg_vars, twin, ip6_locals>>
    /\ UNCHANGED <<header, terms, unknown_at, written, record, directives, modifiers, result,
                   term_start, last_term, is_exp, frags>>

NextTerm == CallNextTerm

SpecTerm == InitTerm /\ [][NextTerm]_vars

----------------------------------------------------------------------------
(* AuthenticatedMessage::parse.  The header scan (HeaderParser) and the     *)
(* parsers of the header values are outside this file: a scanned header is *)
(* the record of its kind, its name, its raw value and of what the parser  *)
(* of its kind returns for that value (parsed), ok being FALSE for Err.    *)
(* For a signature, ha is what HashAlgorithm::from gives for its a tag.    *)

\* lines 25-34
NewMessage ==
    [headers |-> <<>>, from |-> <<>>, body |-> <<>>, body_hashes |-> <<>>,
     dkim_headers |-> <<>>, ams_headers |-> <<>>, as_headers |-> <<>>,
     aar_headers |-> <<>>]

\* no digest yet: Vec::new()
NoDigest == <<>>

\* a header whose value failed to parse is kept without its value
HeaderNewFailureDropsValue(name, value, parsed) ==
    [name |-> name, value |-> IF parsed.ok THEN value ELSE "", header |-> parsed]

\* Header::new(name, value, header)
Header_new(name, value, parsed) ==
    [name |-> name, value |-> value, header |-> parsed]

\* every signature registers its tuple
HashNeverRequested(body_hashes, signature) == FALSE

\* lines 45-48 and 73-76: body_hashes.iter().any(...)
HashRequested(body_hashes, signature) ==
    \E k \in 1..Len(body_hashes) :
        /\ body_hashes[k].cb = signature.cb
        /\ body_hashes[k].ha = signature.ha
        /\ body_hashes[k].l = signature.l

\* lines 43-54 and 71-81: a parsed signature registers its body hash
RegisterBodyHash(body_hashes, signature) ==
    IF signature.ok /\ ~HashRequested(body_hashes, signature)
      THEN Append(body_hashes,
                  [cb |-> signature.cb, ha |-> signature.ha, l |-> signature.l,
                   bh |-> NoDigest])
      ELSE body_hashes

\* the flag follows the last ARC header
LastError(flag, is_err) == is_err

\* lines 62-64 and 93-95 (and 82-84): the flag, once set, stays set
StickyError(flag, is_err) == IF ~flag THEN is_err ELSE flag

to_lowercase(txt) ==
    [k \in 1..Len(txt) |->
        IF txt[k] \in Upper THEN CHOOSE c \in Lower : Ord(c) = Ord(txt[k]) + 32
        ELSE txt[k]]

\* lines 100-131: the addresses of a From header, those without an address
\* part (None) left out
RECURSIVE FromAddresses(_)
FromAddresses(found) ==
    IF found = <<>> THEN <<>>
    ELSE IF Head(found).some
      THEN <<to_lowercase(Head(found).address)>> \o FromAddresses(Tail(found))
      ELSE FromAddresses(Tail(found))

\* lines 40-136: the arm of the header's kind
ClassifyHeader(m, flag, h) ==
    CASE h.kind = "Ds" ->
           [message |-> [m EXCEPT
                           !.body_hashes = RegisterBodyHash(@, h.parsed),
                           !.dkim_headers = Append(@, Header_new(h.name, h.value, h.parsed))],
            has_arc_errors |-> flag]
      [] h.kind = "Aar" ->
           [message |-> [m EXCEPT
                           !.aar_headers = Append(@, Header_new(h.name, h.value, h.parsed))],
            has_arc_errors |-> StickyError(flag, ~h.parsed.ok)]
      [] h.kind = "Ams" ->
           [message |-> [m EXCEPT
                           !.body_hashes = RegisterBodyHash(@, h.parsed),
                           !.ams_headers = Append(@, Header_new(h.name, h.value, h.parsed))],
            has_arc_errors |-> IF h.parsed.ok THEN flag ELSE TRUE]
      [] h.kind = "As" ->
           [message |-> [m EXCEPT
                           !.as_headers = Append(@, Header_new(h.name, h.value, h.parsed))],
            has_arc_errors |-> StickyError(flag, ~h.parsed.ok)]
      [] h.kind = "From" ->
           [message |-> [m EXCEPT !.from = @ \o FromAddresses(h.parsed.found)],
            has_arc_errors |-> flag]
      [] OTHER -> [message |-> m, has_arc_errors |-> flag]

\* line 138, after the arm
ClassifyPush(c, h) ==
    [c EXCEPT !.message.headers = Append(@, <<h.name, h.value>>)]

\* lines 39-139: one turn of the header loop
Classify(m, flag, h) == ClassifyPush(ClassifyHeader(m, flag, h), h)

\* the message is refused when it holds no signature
NoSignatures(m) == m.dkim_headers = <<>>

\* line 141: message.headers.is_empty()
NoHeaders(m) == m.headers = <<>>

\* cb.hash_body::<T>(body, l), the digest as the term of what it is computed from
hash_body(cb, ha, body, l) == [cb |-> cb, ha |-> ha, body |-> body, l |-> l]

\* lines 146-158: the body, then the digest of every registered tuple
HashBodies(m, body) ==
    [m EXCEPT
        !.body = body,
        !.body_hashes =
            [k \in 1..Len(m.body_hashes) |->
                [cb |-> m.body_hashes[k].cb, ha |-> m.body_hashes[k].ha,
                 l |-> m.body_hashes[k].l,
                 bh |-> hash_body(m.body_hashes[k].cb, m.body_hashes[k].ha, body,
                                  m.body_hashes[k].l)]]]

\* lines 163-167: the key of the comparator, header.as_ref().unwrap().i
Instance(h) == h.header.i

\* where h goes into an ascending run: behind the entries with its key, or
\* before them when the build's sort moves equal keys
InsertPoint(run, h, ties) ==
    Cardinality({k \in 1..Len(run) :
                    \/ Instance(run[k]) < Instance(h)
                    \/ ~ties /\ Instance(run[k]) = Instance(h)})

RECURSIVE SortInto(_, _, _)
SortInto(run, rest, ties) ==
    IF rest = <<>> THEN run
    ELSE SortInto(SubSeq(run, 1, InsertPoint(run, Head(rest), ties))
                    \o <<Head(rest)>>
                    \o SubSeq(run, InsertPoint(run, Head(rest), ties) + 1, Len(run)),
                  Tail(rest), ties)

\* the collection is left as it is
KeepOrder(hs, ties) == hs

\* lines 162, 169, 176: hs.sort_unstable_by(|a, b| a.i.cmp(&b.i))
sort_unstable_by(hs, ties) == SortInto(<<>>, hs, ties)

\* the comparator runs when there are two entries to compare, and its unwrap
\* panics on a failed parse
SortPanics(hs) == Len(hs) >= 2 /\ \E k \in 1..Len(hs) : ~hs[k].header.ok

\* the sort runs whenever there is a seal
SortsArcDespiteErrors(m, flag) == m.as_headers # <<>>

\* line 161
SortsArc(m, flag) == m.as_headers # <<>> /\ ~flag

\* line 185, r what the sort step left
ParseAfterSort(r) ==
    IF r.panic THEN [returned |-> "panic"] ELSE [returned |-> "Some", message |-> r.message]

\* lines 160-185
SortArc(m, flag, ties) ==
    IF ~SortsArc(m, flag) THEN [panic |-> FALSE, message |-> m]
    ELSE IF SortPanics(m.as_headers) \/ SortPanics(m.ams_headers) \/ SortPanics(m.aar_headers)
      THEN [panic |-> TRUE, message |-> m]
    ELSE [panic |-> FALSE,
          message |-> [m EXCEPT
                         !.as_headers = sort_unstable_by(@, ties),
                         !.ams_headers = sort_unstable_by(@, ties),
                         !.aar_headers = sort_unstable_by(@, ties)]]

\* lines 141-186, c what the header loop left
ParseAfterHeaders(c, body, ties) ==
    IF NoHeaders(c.message) THEN [returned |-> "None"]
    ELSE ParseAfterSort(SortArc(HashBodies(c.message, body), c.has_arc_errors, ties))

\* lines 39-139: the header loop
RECURSIVE HeaderLoop(_, _)
HeaderLoop(c, hs) ==
    IF hs = <<>> THEN c
    ELSE HeaderLoop(Classify(c.message, c.has_arc_errors, Head(hs)), Tail(hs))

\* AuthenticatedMessage::parse as a function of the raw message: what it returns
AuthenticatedMessage_parse(raw, ties) ==
    ParseAfterHeaders(HeaderLoop([message |-> NewMessage, has_arc_errors |-> FALSE],
                                 raw.headers),
                      raw.body, ties)

----------------------------------------------------------------------------
(* AuthenticatedMessage::parse called on a message of up to MaxHeaders    *)
(* headers.                                                                *)

MaxHeaders == 3

Failed == [ok |-> FALSE]
DkimSignature(cb, ha, l) == [ok |-> TRUE, cb |-> cb, ha |-> ha, l |-> l]
ArcSignature(i, cb, ha, l) == [ok |-> TRUE, i |-> i, cb |-> cb, ha |-> ha, l |-> l]
ArcSet(i) == [ok |-> TRUE, i |-> i]

Scanned(kind, name, value, parsed) ==
    [kind |-> kind, name |-> name, value |-> value, parsed |-> parsed]

HeaderPool ==
    {Scanned("Ds", "DKIM-Signature", "d1", DkimSignature("relaxed", "Sha256", 0)),
     Scanned("Ds", "DKIM-Signature", "dx", Failed),
     Scanned("Ams", "ARC-Message-Signature", "m1", ArcSignature(1, "relaxed", "Sha256", 0)),
     Scanned("Ams", "ARC-Message-Signature", "m2", ArcSignature(2, "simple", "Sha1", 10)),
     Scanned("Ams", "ARC-Message-Signature", "mx", Failed),
     Scanned("As", "ARC-Seal", "s1", ArcSet(1)),
     Scanned("As", "ARC-Seal", "s1b", ArcSet(1)),
     Scanned("As", "ARC-Seal", "s2", ArcSet(2)),
     Scanned("As", "ARC-Seal", "sx", Failed),
     Scanned("Aar", "ARC-Authentication-Results", "r1", ArcSet(1)),
     Scanned("Aar", "ARC-Authentication-Results", "r2", ArcSet(2)),
     Scanned("Aar", "ARC-Authentication-Results", "rx", Failed),
     Scanned("From", "From", "f",
             [found |-> <<[some |-> TRUE, address |-> Bytes("Jdoe@Example.org")],
                          [some |-> FALSE]>>]),
     Scanned("Other", "Subject", "o", Failed)}

MessageBody == Bytes("body")

Scans ==
    {[headers |-> hs, body |-> MessageBody] :
        hs \in UNION {[1..n -> HeaderPool] : n \in 0..MaxHeaders}}

NoSpfParse ==
    /\ header = <<>>
    /\ terms = <<>>
    /\ unknown_at = 0
    /\ written = NoAddress
    /\ record = <<>>
    /\ pos = 0
    /\ pc = "idle"
    /\ directives = <<>>
    /\ modifiers = <<>>
    /\ result = ""
    /\ term_start = 0
    /\ last_term = NoTerm
    /\ is_exp = FALSE
    /\ frags = NoReturn
    /\ ret = NoReturn

InitMessage ==
    /\ NoSpfParse
    /\ twin = NoTwin
    /\ ip6_locals = Ip6Locals
    /\ raw_message \in Scans
    /\ unstable_ties \in BOOLEAN
    /\ next_header = 0
    /\ message = NewMessage
    /\ has_arc_errors = FALSE
    /\ msg_pc = "headers"

\* the turn of the header loop gave c
ClassifyStep(c) ==
    /\ message' = c.message
    /\ has_arc_errors' = c.has_arc_errors

\* lines 39-139: the next header of the scan
ClassifyNext ==
    /\ msg_pc = "headers"
    /\ next_header < Len(raw_message.headers)
    /\ ClassifyStep(Classify(message, has_arc_errors, raw_message.headers[next_header + 1]))
    /\ next_header' = next_header + 1
    /\ UNCHANGED <<spf_vars, twin, ip6_locals, raw_message, unstable_ties, msg_pc>>

\* lines 141-143: the scan is over and gave no header
ReturnNone ==
    /\ msg_pc = "headers"
    /\ next_header = Len(raw_message.headers)
    /\ NoHeaders(message)
    /\ msg_pc' = "None"
    /\ UNCHANGED <<spf_vars, twin, ip6_locals, raw_message, unstable_ties, next_header, message,
                   has_arc_errors>>

\* lines 141-158: the scan is over; the body and its digests
CalculateBodyHashes ==
    /\ msg_pc = "headers"
    /\ next_header = Len(raw_message.headers)
    /\ ~NoHeaders(message)
    /\ message' = HashBodies(message, raw_message.body)
    /\ msg_pc' = "sort"
    /\ UNCHANGED <<spf_vars, twin, ip6_locals, raw_message, unstable_ties, next_header, has_arc_errors>>

\* the sort step gave r
SortStep(r) ==
    /\ message' = r.message
    /\ msg_pc' = IF r.panic THEN "panic" ELSE "Some"

\* lines 160-185: the ARC headers are sorted and the message is returned
SortArcHeaders ==
    /\ msg_pc = "sort"
    /\ SortStep(SortArc(message, has_arc_errors, unstable_ties))
    /\ UNCHANGED <<spf_vars, twin, ip6_locals, raw_message, unstable_ties, next_header, has_arc_errors>>

NextMessage == ClassifyNext \/ ReturnNone \/ CalculateBodyHashes \/ SortArcHeaders

SpecMessage == InitMessage /\ [][NextMessage]_vars

----------------------------------------------------------------------------
(* Two parses at once.  The first is the parse of the specifications above *)
(* and the second, twin, holds its own input and its own copy of the       *)
(* locals of the call; the steps of the two are taken in any order.  The   *)
(* twin parses the bytes of the first parse, or other bytes.               *)

MaxTwinHeaders == 2

TwiceRecords ==
    {[header |-> Bytes("v=spf1"), terms |-> <<Bytes("a"), Bytes("-all")>>],
     [header |-> Bytes("v=spf1"), terms |-> <<Bytes("ip4:1.2.3.4/24"), Bytes("~MX")>>],
     [header |-> Bytes("v=spf1"), terms |-> <<Bytes("exists:%{d}"), Bytes("redirect=x")>>],
     [header |-> Bytes("v=spf1"), terms |-> <<Bytes("ip6:::1/300"), Bytes("a")>>],
     [header |-> Bytes("v=spf1"), terms |-> <<>>],
     [header |-> Bytes("v=spf2"), terms |-> <<Bytes("a")>>]}

OtherRecord == Bytes("v=spf1 mx//64 ?all")

TwicePool ==
    {h \in HeaderPool : h.value \in {"d1", "m2", "mx", "s1", "s1b", "s2", "sx", "rx", "f"}}

TwiceScans ==
    {[headers |-> hs, body |-> MessageBody] :
        hs \in UNION {[1..n -> TwicePool] : n \in 0..MaxTwinHeaders}}

OtherScan ==
    [headers |-> <<Scanned("As", "ARC-Seal", "s2", ArcSet(2)),
                   Scanned("Aar", "ARC-Authentication-Results", "rx", Failed)>>,
     body |-> Bytes("other")]

\* the locals of SPF::parse at its start, on the record s
TwinSpf(s) ==
    [of |-> "spf", record |-> s, pos |-> 0, pc |-> "version",
     directives |-> <<>>, modifiers |-> <<>>, result |-> ""]

\* the locals of AuthenticatedMessage::parse at its start, on the message raw
TwinMessage(raw) ==
    [of |-> "message", raw_message |-> raw, next_header |-> 0, pc |-> "headers",
     message |-> NewMessage, has_arc_errors |-> FALSE]

InitTwiceSpf ==
    /\ NoMessageParse
    /\ \E r \in TwiceRecords : header = r.header /\ terms = r.terms
    /\ unknown_at = 0
    /\ written = NoAddress
    /\ record = BuildRecord(header, terms)
    /\ pos = 0
    /\ pc = "version"
    /\ directives = <<>>
    /\ modifiers = <<>>
    /\ result = ""
    /\ term_start = 0
    /\ last_term = NoTerm
    /\ is_exp = FALSE
    /\ frags = NoReturn
    /\ ret = NoReturn
    /\ twin \in {TwinSpf(record), TwinSpf(OtherRecord)}
    /\ ip6_locals = Ip6Locals

InitTwiceMessage ==
    /\ NoSpfParse
    /\ raw_message \in TwiceScans
    /\ unstable_ties \in BOOLEAN
    /\ next_header = 0
    /\ message = NewMessage
    /\ has_arc_errors = FALSE
    /\ msg_pc = "headers"
    /\ twin \in {TwinMessage(raw_message), TwinMessage(OtherScan)}
    /\ ip6_locals = Ip6Locals

InitTwice == InitTwiceSpf \/ InitTwiceMessage

\* the version check of the twin returned v
TwinVersionStep(v) ==
    twin' = [twin EXCEPT !.pos = v.pos,
                         !.pc = IF v.err # "" THEN "done" ELSE "terms",
                         !.result = v.err]

\* lines 12-25, in the twin
TwinParseVersion ==
    /\ twin.of = "spf"
    /\ twin.pc = "version"
    /\ TwinVersionStep(ParseVersionTag(twin.record))
    /\ UNCHANGED <<spf_vars, msg_vars, ip6_locals>>

\* a turn of the record loop of the twin left r
TwinTurnStep(r) ==
    twin' = [twin EXCEPT !.pos = r.pos,
                         !.directives = r.directives,
                         !.modifiers = r.modifiers,
                         !.result = r.result,
                         !.pc = IF r.result # "" THEN "done" ELSE "terms"]

\* lines 27-168, in the twin: one turn of the record loop, or its end
TwinParseTerm ==
    /\ twin.of = "spf"
    /\ twin.pc = "terms"
    /\ TwinTurnStep(RecordLoopTurn(twin.record, twin.pos, twin.directives, twin.modifiers))
    /\ UNCHANGED <<spf_vars, msg_vars, ip6_locals>>

\* the flag is one static shared by every call
SharedErrors == has_arc_errors

\* line 37: has_arc_errors is a local of the call
TwinErrors == twin.has_arc_errors

\* the turn of the header loop of the twin gave c
TwinClassifyStep(c) ==
    twin' = [twin EXCEPT !.message = c.message,
                         !.has_arc_errors = c.has_arc_errors,
                         !.next_header = @ + 1]

\* lines 39-139, in the twin
TwinClassifyNext ==
    /\ twin.of = "message"
    /\ twin.pc = "headers"
    /\ twin.next_header < Len(twin.raw_message.headers)
    /\ TwinClassifyStep(Classify(twin.message, TwinErrors,
                                 twin.raw_message.headers[twin.next_header + 1]))
    /\ UNCHANGED <<spf_vars, msg_vars, ip6_locals>>

\* lines 141-143, in the twin
TwinReturnNone ==
    /\ twin.of = "message"
    /\ twin.pc = "headers"
    /\ twin.next_header = Len(twin.raw_message.headers)
    /\ NoHeaders(twin.message)
    /\ twin' = [twin EXCEPT !.pc = "None"]
    /\ UNCHANGED <<spf_vars, msg_vars, ip6_locals>>

\* lines 141-158, in the twin
TwinCalculateBodyHashes ==
    /\ twin.of = "message"
    /\ twin.pc = "headers"
    /\ twin.next_header = Len(twin.raw_message.headers)
    /\ ~NoHeaders(twin.message)
    /\ twin' = [twin EXCEPT !.message = HashBodies(@, twin.raw_message.body),
                            !.pc = "sort"]
    /\ UNCHANGED <<spf_vars, msg_vars, ip6_locals>>

\* the sort step of the twin gave r
TwinSortStep(r) ==
    twin' = [twin EXCEPT !.message = r.message,
                         !.pc = IF r.panic THEN "panic" ELSE "Some"]

\* lines 160-185, in the twin
TwinSortArcHeaders ==
    /\ twin.of = "message"
    /\ twin.pc = "sort"
    /\ TwinSortStep(SortArc(twin.message, TwinErrors, unstable_ties))
    /\ UNCHANGED <<spf_vars, msg_vars, ip6_locals>>

NextTwice ==
    \/ ParseVersion \/ ParseTerm \/ ReturnOk
    \/ TwinParseVersion \/ TwinParseTerm
    \/ ClassifyNext \/ ReturnNone \/ CalculateBodyHashes \/ SortArcHeaders
    \/ TwinClassifyNext \/ TwinReturnNone \/ TwinCalculateBodyHashes \/ TwinSortArcHeaders

SpecTwice == InitTwice /\ [][NextTwice]_vars

----------------------------------------------------------------------------
(* What the record says, read off its bytes: the term a turn of the loop   *)
(* ended on, its prefix symbols and the prefix lengths written in it.      *)

IsPrefix(p, q) == Len(p) <= Len(q) /\ SubSeq(q, 1, Len(p)) = p

\* the last byte of the term the cursor p has just passed
TermEnd(r, p) == IF p > 0 /\ is_ascii_whitespace(r[p]) THEN p - 1 ELSE p

\* the first byte of the whitespace-delimited term whose last byte is e
TermBegin(r, e) ==
    CHOOSE b \in 1..(e + 1) :
        /\ \A k \in b..e : ~is_ascii_whitespace(r[k])
        /\ b = 1 \/ is_ascii_whitespace(r[b - 1])

TermText(r, p) == SubSeq(r, TermBegin(r, TermEnd(r, p)), TermEnd(r, p))

PrefixQualifier(c) ==
    CASE c = "+" -> "Pass"
      [] c = "-" -> "Fail"
      [] c = "~" -> "SoftFail"
      [] c = "?" -> "Neutral"

\* the qualifiers of the prefix symbols the term w begins with, Pass when none
PrefixQualifiers(w) ==
    IF w = <<>> \/ w[1] \notin {"+", "-", "~", "?"} THEN {"Pass"}
    ELSE {PrefixQualifier(w[k]) :
            k \in {j \in 1..Len(w) : \A m \in 1..j : w[m] \in {"+", "-", "~", "?"}}}

\* the positions of the `/` of w that are outside braces
Slashes(w) ==
    {k \in 1..Len(w) :
        /\ w[k] = "/"
        /\ ~\E j \in 1..k : w[j] = "{" /\ \A m \in j..k : w[m] # "}"}

\* the run of digits of w that begins at k
DigitsFrom(w, k) ==
    LET n == CHOOSE n \in 0..(Len(w) - k + 1) :
                /\ \A j \in k..(k + n - 1) : w[j] \in Digit
                /\ k + n > Len(w) \/ w[k + n] \notin Digit
    IN SubSeq(w, k, k + n - 1)

SetMin(S) == CHOOSE x \in S : \A y \in S : x <= y
SetMax(S) == CHOOSE x \in S : \A y \in S : x >= y

\* the digits written after the first `/`, none when there is no `/`
WrittenLength(w) ==
    IF Slashes(w) = {} THEN <<>> ELSE DigitsFrom(w, SetMin(Slashes(w)) + 1)

\* the digits written after the last `/` of a dual length, none without a second `/`
WrittenIp6Length(w) ==
    IF Cardinality(Slashes(w)) < 2 THEN <<>> ELSE DigitsFrom(w, SetMax(Slashes(w)) + 1)

RECURSIVE Decimal(_)
Decimal(ds) ==
    IF ds = <<>> THEN 0
    ELSE 10 * Decimal(SubSeq(ds, 1, Len(ds) - 1)) + DigitVal(ds[Len(ds)])

LastOf(list) == list[Len(list)]

\* the record without the inserted unknown term
RecordWithoutUnknown == BuildRecord(header, RemoveAt(terms, unknown_at))

\* what parse returned: the error, or Ok and the two lists
Outcome ==
    IF result = "Ok"
      THEN [result |-> "Ok", directives |-> directives, modifiers |-> modifiers]
      ELSE [result |-> result]

----------------------------------------------------------------------------
\* C1: during the record loop directives and modifiers only grow by one push at
\* the end per term, nothing pushed is removed or reordered, the cursor only
\* moves forward so the lists follow the order of the terms, a redirect or exp
\* term never becomes a directive and only such a term becomes a modifier.
C1_AppendOnlyInTermOrder ==
    [][/\ IsPrefix(directives, directives')
       /\ IsPrefix(modifiers, modifiers')
       /\ Len(directives') + Len(modifiers') <= Len(directives) + Len(modifiers) + 1
       /\ pos' >= pos
       /\ directives' # directives => last_term'.some /\ last_term'.term \notin {EXP, REDIRECT}
       /\ modifiers' # modifiers => last_term'.some /\ last_term'.term \in {EXP, REDIRECT}
      ]_vars

\* an accepted record that left two different directives, the second All
C1_Witness ==
    /\ pc = "done" /\ result = "Ok"
    /\ Len(directives) = 2
    /\ directives[1].mechanism.kind # "All"
    /\ directives[2].mechanism.kind = "All"

\* C2: the qualifier of every directive pushed is the one of a prefix symbol of
\* its own term, and Pass when the term begins with no prefix symbol.
C2_QualifierMatchesPrefix ==
    [][directives' # directives =>
         LastOf(directives').qualifier \in PrefixQualifiers(TermText(record, pos'))]_vars

\* C3: parse never returns Ok with directives and modifiers both empty.
C3_NeverOkEmpty ==
    ~(pc = "done" /\ result = "Ok" /\ directives = <<>> /\ modifiers = <<>>)

\* the record opens with the key v
HasVersionKey(r) == Len(r) >= 2 /\ r[1] = "v" /\ r[2] = "="

\* the value after v= is spf1 followed by whitespace or the end of the record
HasExactVersion(r) ==
    /\ Len(r) >= 6
    /\ SubSeq(r, 3, 6) = <<"s", "p", "f", "1">>
    /\ Len(r) = 6 \/ is_ascii_whitespace(r[7])

\* C4: parse returns InvalidRecord when the first key is not v, InvalidVersion
\* when the version value is not exactly spf1 followed by whitespace or the end,
\* and in both cases returns at once with no term parsed.
C4_VersionErrors ==
    pc # "version" =>
        /\ ~HasVersionKey(record) =>
              pc = "done" /\ result = "InvalidRecord" /\ ~last_term.some
        /\ HasVersionKey(record) /\ ~HasExactVersion(record) =>
              pc = "done" /\ result = "InvalidVersion" /\ ~last_term.some
        /\ result \in {"InvalidRecord", "InvalidVersion"} => directives = <<>> /\ modifiers = <<>>

\* the record v=spf10 was refused with InvalidVersion
C4_Witness ==
    pc = "done" /\ header = Bytes("v=spf10") /\ result = "InvalidVersion"

\* C5: a prefix length written larger than the family maximum is parsed as
\* exactly that maximum, for a, mx, ip4 and ip6, however many digits it has.
C5_ClampsToMaximum ==
    [][directives' # directives =>
         LET w == TermText(record, pos')
             m == LastOf(directives').mechanism
         IN /\ m.kind \in {"A", "Mx"} /\ Decimal(WrittenLength(w)) > 32 =>
                 m.ip4_cidr_length = 32
            /\ m.kind \in {"A", "Mx"} /\ Decimal(WrittenIp6Length(w)) > 128 =>
                 m.ip6_cidr_length = 128
            /\ m.kind = "Ip4" /\ Decimal(WrittenLength(w)) > 32 => m.cidr_length = 32
            /\ m.kind = "Ip6" /\ Decimal(WrittenLength(w)) > 128 => m.cidr_length = 128
      ]_vars

\* C6: a length field with no `/` or with no digits after its `/` is parsed as
\* the default, 32 for an IPv4 length and 128 for an IPv6 length, for a, mx,
\* ip4 and ip6.
C6_UnsetGivesDefault ==
    [][directives' # directives =>
         LET w == TermText(record, pos')
             m == LastOf(directives').mechanism
         IN /\ m.kind \in {"A", "Mx"} /\ WrittenLength(w) = <<>> => m.ip4_cidr_length = 32
            /\ m.kind \in {"A", "Mx"} /\ WrittenIp6Length(w) = <<>> => m.ip6_cidr_length = 128
            /\ m.kind = "Ip4" /\ WrittenLength(w) = <<>> => m.cidr_length = 32
            /\ m.kind = "Ip6" /\ WrittenLength(w) = <<>> => m.cidr_length = 128
      ]_vars

\* C7: a record with the term unknown:foo inserted gives what the record
\* without that term gives.
C7_UnknownTermLeavesListsAlone ==
    pc = "done" /\ unknown_at # 0 => Outcome = SPF_parse(RecordWithoutUnknown)

\* C8: a term with an unknown keyword ended by whitespace is skipped alone: the
\* cursor stays after that whitespace, the loop goes on and the lists are as
\* they were.
C8_BareUnknownSkipsOnlyItself ==
    [][(/\ pc = "terms"
        /\ last_term'.some
        /\ last_term'.term \notin {A, ALL, EXISTS, EXP, INCLUDE, IP4, IP6, MX, PTR, REDIRECT}
        /\ last_term'.pos > 0
        /\ is_ascii_whitespace(record[last_term'.pos]))
       => /\ pos' = last_term'.pos
          /\ pc' = "terms"
          /\ directives' = directives
          /\ modifiers' = modifiers
      ]_vars

\* C9: what macro_string returns is never None and never a List of fewer than
\* two fragments, each a Literal or a Variable; one collected fragment is
\* returned as itself, two or more as their List, and none is ParseFailed.
C9_WellShaped ==
    pc = "done" =>
        /\ frags.err # "" => ret.err = frags.err
        /\ frags.err = "" /\ Len(frags.macro_string) = 0 => ret.err = "ParseFailed"
        /\ frags.err = "" /\ Len(frags.macro_string) = 1 =>
              ret.err = "" /\ ret.macro = frags.macro_string[1]
        /\ frags.err = "" /\ Len(frags.macro_string) >= 2 =>
              ret.err = "" /\ ret.macro = [kind |-> "List", items |-> frags.macro_string]
        /\ ret.err = "" =>
              /\ ret.macro.kind \in {"Literal", "Variable", "List"}
              /\ ret.macro.kind = "List" =>
                    /\ Len(ret.macro.items) >= 2
                    /\ \A k \in 1..Len(ret.macro.items) :
                          ret.macro.items[k].kind \in {"Literal", "Variable"}

\* one fragment was collected, a Variable, and returned
C9_Witness ==
    /\ pc = "done" /\ frags.err = ""
    /\ Len(frags.macro_string) = 1
    /\ ret.err = "" /\ ret.macro.kind = "Variable"

----------------------------------------------------------------------------
(* What a reference `%{` letter transformers `}` says, read off its bytes. *)

DelimiterChars == {".", "-", "+", ",", "/", "_", "="}

\* a byte macro_string takes as it is
PlainByte(c) == c \notin {"%", "/"} /\ ~is_ascii_whitespace(c)

\* s is plain bytes, one reference from a to b, plain bytes
IsReference(s, a, b) ==
    /\ a + 3 <= b
    /\ s[a] = "%" /\ s[a + 1] = "{" /\ s[b] = "}"
    /\ \A k \in (a + 3)..(b - 1) : s[k] \in Digit \cup {"r", "R"} \cup DelimiterChars
    /\ \A k \in 1..(a - 1) : PlainByte(s[k])
    /\ \A k \in (b + 1)..Len(s) : PlainByte(s[k])

LetterNamed(l) ==
    CASE l \in {"s", "S"} -> "Sender"
      [] l \in {"l", "L"} -> "SenderLocalPart"
      [] l \in {"o", "O"} -> "SenderDomainPart"
      [] l \in {"d", "D"} -> "Domain"
      [] l \in {"i", "I"} -> "Ip"
      [] l \in {"p", "P"} -> "ValidatedDomain"
      [] l \in {"v", "V"} -> "IpVersion"
      [] l \in {"h", "H"} -> "HeloDomain"
      [] l \in {"c", "C"} -> "SmtpIp"
      [] l \in {"r", "R"} -> "HostDomain"
      [] l \in {"t", "T"} -> "CurrentTime"

\* the letters of a reference, c, r and t only in an explanation
LettersAllowed(exp) ==
    {"s", "S", "l", "L", "o", "O", "d", "D", "i", "I", "p", "P", "v", "V", "h", "H"}
    \cup (IF exp THEN {"c", "C", "r", "R", "t", "T"} ELSE {})

\* the decimal value of ds as <<value \div 2^16, value % 2^16>>
RECURSIVE WideDecimal(_)
WideDecimal(ds) ==
    IF ds = <<>> THEN <<0, 0>>
    ELSE LET p == WideDecimal(SubSeq(ds, 1, Len(ds) - 1))
             x == p[2] * 10 + DigitVal(ds[Len(ds)])
         IN <<p[1] * 10 + (x \div 65536), x % 65536>>

\* n, and 2^32 - 1 when n is larger
ClampU32(n) == IF n[1] >= 65536 THEN <<65535, 65535>> ELSE n

IsDigit(c) == c \in Digit

\* the Variable the reference s[a..b] names, num_parts the value given
ReferenceVariable(s, a, b, num_parts) ==
    LET named == {s[k] : k \in (a + 3)..(b - 1)} \cap DelimiterChars
    IN [kind |-> "Variable",
        letter |-> LetterNamed(s[a + 2]),
        num_parts |-> num_parts,
        reverse |-> \E k \in (a + 3)..(b - 1) : s[k] \in {"r", "R"},
        escape |-> s[a + 2] \in Upper,
        delimiters |-> {Ord(c) - Ord("+") : c \in IF named = {} THEN {"."} ELSE named}]

\* the fragments of plain bytes, the Variable v standing for s[a..b], plain bytes
ReferenceFragments(s, a, b, v) ==
    (IF a > 1 THEN <<[kind |-> "Literal", bytes |-> SubSeq(s, 1, a - 1)]>> ELSE <<>>)
    \o <<v>> \o
    (IF b < Len(s) THEN <<[kind |-> "Literal", bytes |-> SubSeq(s, b + 1, Len(s))]>> ELSE <<>>)

\* macro_string returned the fragments fs
Returned(fs) ==
    /\ ret.err = ""
    /\ ret.macro = IF Len(fs) = 1 THEN fs[1] ELSE [kind |-> "List", items |-> fs]

\* what `%{l1r+}.%{d}` is to give
ExampleFragments ==
    <<[kind |-> "Variable", letter |-> "SenderLocalPart", num_parts |-> <<0, 1>>,
       reverse |-> TRUE, escape |-> FALSE, delimiters |-> {Ord("+") - Ord("+")}],
      [kind |-> "Literal", bytes |-> <<".">>],
      [kind |-> "Variable", letter |-> "Domain", num_parts |-> <<0, 0>>,
       reverse |-> FALSE, escape |-> FALSE, delimiters |-> {Ord(".") - Ord("+")}]>>

\* C10: for a well-formed reference macro_string gives the Variable of its
\* letter, escape exactly for an uppercase letter, num_parts the decimal value
\* of the digits in the braces and 2^32 - 1 when that value is larger, reverse
\* exactly when r or R is in the braces, and the delimiters written, `.` alone
\* when none is; `%{l1r+}.%{d}` gives its three fragments.
C10_ReferenceFields ==
    pc = "done" =>
        /\ \A a, b \in 1..Len(record) :
              IsReference(record, a, b) /\ record[a + 2] \in LettersAllowed(is_exp) =>
                 Returned(ReferenceFragments(record, a, b,
                    ReferenceVariable(record, a, b,
                       ClampU32(WideDecimal(SelectSeq(SubSeq(record, a + 3, b - 1), IsDigit))))))
        /\ record = Bytes("%{l1r+}.%{d}") => Returned(ExampleFragments)

\* C10 as stated: num_parts is the decimal value of the digits, whatever it is.
C10_ReferenceFieldsAsStated ==
    pc = "done" =>
        /\ \A a, b \in 1..Len(record) :
              IsReference(record, a, b) /\ record[a + 2] \in LettersAllowed(is_exp) =>
                 Returned(ReferenceFragments(record, a, b,
                    ReferenceVariable(record, a, b,
                       WideDecimal(SelectSeq(SubSeq(record, a + 3, b - 1), IsDigit)))))
        /\ record = Bytes("%{l1r+}.%{d}") => Returned(ExampleFragments)

\* a reference with an uppercase letter, a digit, R and a delimiter was returned
C10_Witness ==
    /\ pc = "done" /\ ret.err = ""
    /\ ret.macro.kind = "Variable"
    /\ ret.macro.escape /\ ret.macro.reverse
    /\ ret.macro.num_parts = <<0, 2>>
    /\ ret.macro.delimiters = {Ord("_") - Ord("+")}

----------------------------------------------------------------------------
(* The escapes of a macro-string, read off its bytes. *)

\* s is plain bytes and the escapes `%%`, `%_` and `%-`
RECURSIVE EscapesOnly(_)
EscapesOnly(s) ==
    IF s = <<>> THEN TRUE
    ELSE IF s[1] = "%"
      THEN Len(s) >= 2 /\ s[2] \in {"%", "_", "-"} /\ EscapesOnly(SubSeq(s, 3, Len(s)))
    ELSE PlainByte(s[1]) /\ s[1] # "{" /\ EscapesOnly(Tail(s))

\* s with `%%` read as `%`, `%_` as a space and `%-` as `%20`
RECURSIVE Unescaped(_)
Unescaped(s) ==
    IF s = <<>> THEN <<>>
    ELSE IF s[1] = "%"
      THEN (CASE s[2] = "%" -> Bytes("%")
              [] s[2] = "_" -> Bytes(" ")
              [] s[2] = "-" -> Bytes("%20"))
           \o Unescaped(SubSeq(s, 3, Len(s)))
    ELSE <<s[1]>> \o Unescaped(Tail(s))

\* C11: a macro-string of plain bytes and escapes is the one Literal of its
\* bytes with `%%` read as `%`, `%_` as a space and `%-` as `%20`, and
\* `._%-spf_%_verify%%.` between two variables is the single fragment
\* Literal("._%20spf_ verify%.") between them.
C11_EscapesStayInTheRun ==
    pc = "done" =>
        /\ record # <<>> /\ EscapesOnly(record) =>
              ret.err = "" /\ ret.macro = [kind |-> "Literal", bytes |-> Unescaped(record)]
        /\ record = Bytes("%{l}._%-spf_%_verify%%.%{d}") =>
              /\ ret.err = "" /\ ret.macro.kind = "List"
              /\ Len(ret.macro.items) = 3
              /\ ret.macro.items[1].kind = "Variable"
              /\ ret.macro.items[2] = [kind |-> "Literal", bytes |-> Bytes("._%20spf_ verify%.")]
              /\ ret.macro.items[3].kind = "Variable"

\* the three escapes in one run were returned as one Literal
C11_Witness ==
    /\ pc = "done" /\ record = Bytes("%-%_%%")
    /\ ret.err = "" /\ ret.macro = [kind |-> "Literal", bytes |-> Bytes("%20 %")]

----------------------------------------------------------------------------
(* What an IPv6 text says, read off the pieces it is written from. *)

\* where the `::` of a are
Compressions(a) == {k \in 1..Len(a.pieces) : a.pieces[k] = "::"}

\* the 16-bit groups a writes, a dotted quad being two
GroupCount(a) ==
    Cardinality({k \in 1..Len(a.pieces) : a.pieces[k] = "group"})
    + (IF Len(a.quad) = 4 THEN 2 ELSE 0)

QuadGroups(q) == IF Len(q) = 4 THEN <<q[1] * 256 + q[2], q[3] * 256 + q[4]>> ELSE <<>>

\* a is an address in standard notation: 8 groups, or one `::` and at most 7
StandardIp6(a) ==
    /\ a.affix = "none"
    /\ Len(a.quad) \in {0, 4}
    /\ \/ Compressions(a) = {} /\ GroupCount(a) = 8
       \/ Cardinality(Compressions(a)) = 1 /\ GroupCount(a) <= 7

\* the groups a writes before its `::`, all of them when it has none
GroupsBefore(a) ==
    IF Compressions(a) = {}
      THEN [k \in 1..Len(a.pieces) |-> GroupAt(a, k)] \o QuadGroups(a.quad)
      ELSE [k \in 1..(SetMin(Compressions(a)) - 1) |-> GroupAt(a, k)]

\* the groups a writes after its `::`
GroupsAfter(a) ==
    IF Compressions(a) = {} THEN <<>>
    ELSE [j \in 1..(Len(a.pieces) - SetMin(Compressions(a))) |->
             GroupAt(a, SetMin(Compressions(a)) + j)] \o QuadGroups(a.quad)

\* the address the standard notation gives a: `::` stands for the missing zero groups
StandardAddress(a) ==
    [k \in 0..7 |->
        IF k < Len(GroupsBefore(a)) THEN GroupsBefore(a)[k + 1]
        ELSE IF k >= 8 - Len(GroupsAfter(a)) THEN GroupsAfter(a)[k - (8 - Len(GroupsAfter(a))) + 1]
        ELSE 0]

\* C12: for every address in standard notation, with or without a trailing
\* space, ip6 returns the address the notation gives and the stop character
\* space.
C12_StandardNotationParses ==
    pc = "done" /\ StandardIp6(written) =>
        /\ ret.err = ""
        /\ ret.addr = StandardAddress(written)
        /\ ret.stop_char = " "

\* C13: ip6 fails with InvalidIp6 on more than 8 groups, on a second `::`, on a
\* `::` next to 8 groups, on five dotted octets and on an empty or
\* whitespace-only text.
C13_InvalidTextsFail ==
    pc = "done"
    /\ written.affix = "none"
    /\ \/ GroupCount(written) > 8
       \/ Cardinality(Compressions(written)) >= 2
       \/ Compressions(written) # {} /\ GroupCount(written) = 8
       \/ Len(written.quad) = 5
       \/ written.pieces = <<>> /\ written.quad = <<>>
    => ret.err = "InvalidIp6"

\* a run of digits that the standard notation takes as an octet
StandardOctet(ds) ==
    /\ ds # <<>>
    /\ Len(ds) = 1 \/ ds[1] # "0"
    /\ Decimal(ds) <= 255

\* C14: ip4 returns an address exactly when 3 dots were consumed before the
\* terminator, that is when the text has at least four runs of digits, and
\* InvalidIp4 otherwise; each octet is the decimal value of its run of digits
\* and 255 when that value is larger; a standard dotted quad, with or without
\* a trailing space, gives its four octets and the stop character space.
C14_DottedQuad ==
    pc = "done" =>
        /\ ret.err = "" <=> Len(written.octets) >= 4
        /\ ret.err # "" => ret.err = "InvalidIp4"
        /\ ret.err = "" =>
              \A k \in 1..4 : ret.addr[k - 1] = Min(255, Decimal(written.octets[k]))
        /\ (/\ Len(written.octets) = 4
            /\ \A k \in 1..4 : StandardOctet(written.octets[k])
            /\ written.stop \in {Bytes(""), Bytes(" ")})
           => /\ ret.err = ""
              /\ \A k \in 1..4 : ret.addr[k - 1] = Decimal(written.octets[k])
              /\ ret.stop_char = " "

\* an octet written larger than 255 was returned as 255
C14_Witness ==
    /\ pc = "done" /\ ret.err = ""
    /\ written.octets[2] = Bytes("256") /\ ret.addr[1] = 255
    /\ written.octets[4] = Bytes("38") /\ ret.addr[3] = 38

----------------------------------------------------------------------------
(* What the message says, read off the scan: the headers of a kind among   *)
(* the first n scanned, as the entries their collection should hold.       *)

ScannedOfKind(kind, n) ==
    SelectSeq(SubSeq(raw_message.headers, 1, n), LAMBDA h : h.kind = kind)

EntryOf(h) == [name |-> h.name, value |-> h.value, header |-> h.parsed]

Entries(kind, n) ==
    [k \in 1..Len(ScannedOfKind(kind, n)) |-> EntryOf(ScannedOfKind(kind, n)[k])]

AllScanned == Len(raw_message.headers)

\* a and b hold the same entries, each as often
SameEntries(a, b) ==
    /\ Len(a) = Len(b)
    /\ \E f \in Permutations(1..Len(a)) : \A k \in 1..Len(a) : a[k] = b[f[k]]

Ascending(hs) ==
    \A j, k \in 1..Len(hs) : j < k => Instance(hs[j]) <= Instance(hs[k])

ArcKinds == {"Ams", "As", "Aar"}
SignatureKinds == {"Ds", "Ams", "As", "Aar"}

Collection(kind) ==
    CASE kind = "Ds" -> message.dkim_headers
      [] kind = "Ams" -> message.ams_headers
      [] kind = "As" -> message.as_headers
      [] kind = "Aar" -> message.aar_headers

\* a header of one of the kinds, among the first n scanned, failed to parse
FailedAmong(kinds, n) ==
    \E k \in 1..n :
        /\ raw_message.headers[k].kind \in kinds
        /\ ~raw_message.headers[k].parsed.ok

MessageReturned == msg_pc \in {"None", "Some", "panic"}

\* C15: AuthenticatedMessage::parse returns no message exactly when the
\* header scan gave no header: with at least one header it goes on to the
\* body hashes and the sort and returns a message, whatever the headers
\* parsed to, and it never stops before it returns.
C15_NoMessageOnlyWithoutHeaders ==
    /\ msg_pc = "None" => raw_message.headers = <<>>
    /\ msg_pc \in {"sort", "Some"} => raw_message.headers # <<>>
    /\ msg_pc # "panic"
    /\ msg_pc \in {"headers", "sort"} => ENABLED NextMessage

\* a message whose only header is a signature that failed to parse was returned
C15_Witness ==
    /\ msg_pc = "Some"
    /\ Len(raw_message.headers) = 1
    /\ raw_message.headers[1].kind = "Ds"
    /\ ~raw_message.headers[1].parsed.ok

\* C16: a signature, seal or results header that fails to parse neither
\* fails the parse nor stops the loop: after every turn each of the four
\* collections holds, in order, one entry with name, raw value and parse
\* result for every header of its kind scanned so far, headers holds every
\* header scanned so far, and the returned message holds the same entries.
C16_FailuresAreRetained ==
    /\ msg_pc \in {"headers", "sort"} =>
          /\ \A kind \in SignatureKinds : Collection(kind) = Entries(kind, next_header)
          /\ message.headers =
                [k \in 1..next_header |->
                    <<raw_message.headers[k].name, raw_message.headers[k].value>>]
    /\ MessageReturned /\ raw_message.headers # <<>> =>
          /\ msg_pc = "Some"
          /\ \A kind \in SignatureKinds :
                SameEntries(Collection(kind), Entries(kind, AllScanned))
          /\ message.headers =
                [k \in 1..AllScanned |->
                    <<raw_message.headers[k].name, raw_message.headers[k].value>>]

\* the first header failed to parse, and so did the last of the two after it
C16_Witness ==
    /\ msg_pc = "Some"
    /\ AllScanned = 3
    /\ raw_message.headers[1].kind = "As"
    /\ ~raw_message.headers[1].parsed.ok
    /\ raw_message.headers[2].kind = "Ds"
    /\ raw_message.headers[2].parsed.ok
    /\ raw_message.headers[3].kind = "Ams"
    /\ ~raw_message.headers[3].parsed.ok
    /\ Len(message.headers) = 3

TupleOf(sig) == <<sig.cb, sig.ha, sig.l>>

\* the tuples the parsed DKIM-Signature and ARC-Message-Signature headers
\* among the first n scanned ask for
RequestedTuples(n) ==
    {TupleOf(raw_message.headers[k].parsed) :
        k \in {j \in 1..n : /\ raw_message.headers[j].kind \in {"Ds", "Ams"}
                            /\ raw_message.headers[j].parsed.ok}}

\* C17: body_hashes holds one entry for each tuple (canonicalization, hash
\* algorithm, length limit) that a parsed DKIM-Signature or
\* ARC-Message-Signature header scanned so far asks for, no tuple twice and
\* none besides; no entry has a digest while headers are classified, and
\* from then on each holds the digest of the body for its tuple.
C17_BodyHashesPerTuple ==
    msg_pc \in {"headers", "sort", "Some"} =>
        /\ {TupleOf(message.body_hashes[k]) : k \in 1..Len(message.body_hashes)}
              = RequestedTuples(next_header)
        /\ \A j, k \in 1..Len(message.body_hashes) :
              j # k => TupleOf(message.body_hashes[j]) # TupleOf(message.body_hashes[k])
        /\ \A k \in 1..Len(message.body_hashes) :
              message.body_hashes[k].bh =
                 IF msg_pc = "headers" THEN NoDigest
                 ELSE hash_body(message.body_hashes[k].cb, message.body_hashes[k].ha,
                                raw_message.body, message.body_hashes[k].l)

\* three parsed signatures asked for two tuples
C17_Witness ==
    /\ msg_pc = "Some"
    /\ AllScanned = 3
    /\ Len(message.body_hashes) = 2
    /\ Len(ScannedOfKind("Ds", 3)) = 1
    /\ Len(ScannedOfKind("Ams", 3)) = 2
    /\ ~FailedAmong({"Ds", "Ams"}, 3)

\* C18: when no ARC-Message-Signature, ARC-Seal or ARC-Authentication-Results
\* header failed to parse and there is an ARC-Seal header, the returned
\* as_headers, ams_headers and aar_headers are each ascending by instance
\* number and hold the entries of the headers of their kind.
C18_ArcSortedByInstance ==
    /\ msg_pc = "Some"
    /\ ~FailedAmong(ArcKinds, AllScanned)
    /\ ScannedOfKind("As", AllScanned) # <<>>
    => \A kind \in ArcKinds :
          /\ Ascending(Collection(kind))
          /\ SameEntries(Collection(kind), Entries(kind, AllScanned))

\* seals that came in descending order were put in ascending order
C18_Witness ==
    /\ msg_pc = "Some"
    /\ ~FailedAmong(ArcKinds, AllScanned)
    /\ Len(message.as_headers) = 2
    /\ Len(message.ams_headers) = 1
    /\ ~Ascending(Entries("As", AllScanned))
    /\ Ascending(message.as_headers)

\* C19: when an ARC-Message-Signature, ARC-Seal or ARC-Authentication-Results
\* header failed to parse, wherever it stood and whatever followed it, a
\* message is returned whose as_headers, ams_headers and aar_headers are in
\* the order the headers appeared in.
C19_ArcErrorLeavesOrder ==
    MessageReturned /\ FailedAmong(ArcKinds, AllScanned) =>
        /\ msg_pc = "Some"
        /\ \A kind \in ArcKinds : Collection(kind) = Entries(kind, AllScanned)

\* the first ARC header failed, the later ones parsed and were left descending
C19_Witness ==
    /\ msg_pc = "Some"
    /\ AllScanned = 3
    /\ raw_message.headers[1].kind = "Aar"
    /\ ~raw_message.headers[1].parsed.ok
    /\ ~FailedAmong({"Ams", "As"}, AllScanned)
    /\ Len(message.as_headers) = 2
    /\ ~Ascending(message.as_headers)

----------------------------------------------------------------------------
(* What each of two parses returned.                                       *)

SpfReturned == IF result = "Ok"
    THEN [result |-> "Ok", directives |-> directives, modifiers |-> modifiers]
    ELSE [result |-> result]

TwinSpfReturned == IF twin.result = "Ok"
    THEN [result |-> "Ok", directives |-> twin.directives, modifiers |-> twin.modifiers]
    ELSE [result |-> twin.result]

MessageResult == IF msg_pc = "Some"
    THEN [returned |-> "Some", message |-> message]
    ELSE [returned |-> msg_pc]

TwinMessageResult == IF twin.pc = "Some"
    THEN [returned |-> "Some", message |-> twin.message]
    ELSE [returned |-> twin.pc]

TwinMessageReturned == twin.of = "message" /\ twin.pc \in {"None", "Some", "panic"}

----------------------------------------------------------------------------
\* C21: next_term returns None only when the cursor is at the end of the
\* record, so that whenever SPF::parse returns Ok every byte of the record has
\* been read and no term is left behind the cursor.
C21_OkOnlyAtEndOfRecord ==
    /\ ~last_term.some /\ pc = "done" /\ result = "Ok" => last_term.pos = Len(record)
    /\ pc = "done" /\ result = "Ok" => pos = Len(record)

----------------------------------------------------------------------------
(* What a term written as prefix, word and stop says.                      *)

QualifierSymbols == {"+", "-", "~", "?"}

\* w without the prefix symbols it begins with
RECURSIVE WithoutPrefix(_)
WithoutPrefix(w) ==
    IF w # <<>> /\ Head(w) \in QualifierSymbols THEN WithoutPrefix(Tail(w)) ELSE w

\* the keyword characters of the term written
KeywordWritten == WithoutPrefix(written.prefix \o written.word)

FoldedToLower(w) ==
    [k \in 1..Len(w) |->
        IF w[k] \in Upper THEN CHOOSE c \in Lower : Ord(c) = Ord(w[k]) + 32 ELSE w[k]]

\* the keywords as they are written, and the constant each is dispatched by
Keywords ==
    {<<Bytes("a"), A>>, <<Bytes("mx"), MX>>, <<Bytes("all"), ALL>>,
     <<Bytes("include"), INCLUDE>>, <<Bytes("exists"), EXISTS>>, <<Bytes("ip4"), IP4>>,
     <<Bytes("ip6"), IP6>>, <<Bytes("ptr"), PTR>>, <<Bytes("exp"), EXP>>,
     <<Bytes("redirect"), REDIRECT>>}

\* C22: a term is given the constant of a keyword exactly when its keyword
\* characters, folded to lowercase, are that keyword; a term with nine or
\* more keyword characters, or with a character that is neither a letter nor
\* a digit, is given the sentinel u64::MAX, which is the constant of no
\* keyword.
C22_KeywordsAreClosed ==
    pc = "done" /\ KeywordWritten # <<>> =>
        /\ ret.some
        /\ \A kw \in Keywords : ret.term = kw[2] <=> FoldedToLower(KeywordWritten) = kw[1]
        /\ (\/ Len(KeywordWritten) >= 9
            \/ \E k \in 1..Len(KeywordWritten) :
                  KeywordWritten[k] \notin Lower \cup Upper \cup Digit)
           => ret.term = U64MAX
        /\ \A kw \in Keywords : kw[2] # U64MAX

\* a keyword of eight letters written in capitals after a prefix symbol was
\* given its constant
C22_Witness ==
    /\ pc = "done"
    /\ written.prefix = Bytes("-")
    /\ written.word = Bytes("REDIRECT")
    /\ written.stop = Bytes("=")
    /\ ret.some /\ ret.term = REDIRECT

----------------------------------------------------------------------------
(* What a macro-string says, read off its bytes from the left: escapes,    *)
(* references and plain bytes, up to the byte that ends it.                *)

TransformerChars == Digit \cup {"r", "R"} \cup DelimiterChars

\* where the reference whose `{` is byte j of s closes, 0 when it is malformed:
\* no letter or a letter not allowed, a byte that is no transformer, or no `}`
ReferenceClose(s, j, exp) ==
    IF j + 1 > Len(s) \/ s[j + 1] \notin LettersAllowed(exp) THEN 0
    ELSE LET closes == {b \in (j + 2)..Len(s) :
                           /\ s[b] = "}"
                           /\ \A k \in (j + 2)..(b - 1) : s[k] \in TransformerChars}
         IN IF closes = {} THEN 0 ELSE SetMin(closes)

\* what is wrong first in the macro-string that begins after byte i of s:
\* "reference" for a malformed reference, "percent" for a `%` that is followed
\* by none of `%`, `_`, `-` and `{`, and "nothing"
RECURSIVE MacroFault(_, _, _)
MacroFault(s, i, exp) ==
    IF i >= Len(s) THEN "nothing"
    ELSE IF s[i + 1] = "%"
      THEN IF i + 1 >= Len(s) THEN "percent"
           ELSE IF s[i + 2] \in {"%", "_", "-"} THEN MacroFault(s, i + 2, exp)
           ELSE IF s[i + 2] = "{"
             THEN IF ReferenceClose(s, i + 2, exp) = 0 THEN "reference"
                  ELSE MacroFault(s, ReferenceClose(s, i + 2, exp), exp)
           ELSE "percent"
    ELSE IF ~exp /\ (s[i + 1] = "/" \/ is_ascii_whitespace(s[i + 1])) THEN "nothing"
    ELSE MacroFault(s, i + 1, exp)

\* C23: macro_string fails with InvalidMacro on a macro-string whose first
\* fault is a malformed reference: a letter that names no variable, a byte
\* inside the braces that is no transformer, or no closing brace, also when
\* the input ends inside the reference.
C23_MalformedReferenceFails ==
    pc = "done" /\ MacroFault(record, 0, is_exp) = "reference" => ret.err = "InvalidMacro"

\* C28: macro_string fails with InvalidMacro on a macro-string whose first
\* fault is a `%` followed by a byte other than `%`, `_`, `-` and `{` or by
\* the end of the input, so that no accepted macro-string has lost a `%`.
C28_PercentNeedsItsFollower ==
    pc = "done" /\ MacroFault(record, 0, is_exp) = "percent" => ret.err = "InvalidMacro"

----------------------------------------------------------------------------
\* C24: ip6 fails with InvalidIp6 on a text in which a `:`, alone or with one
\* more group, follows the dotted octets.
C24_DottedQuadOnlyLast ==
    pc = "done" /\ written.quad # <<>> /\ written.affix \in {"trail", "group"}
        => ret.err = "InvalidIp6"

\* C27: ip6 returns an address only for a text in standard notation: not for
\* fewer than 8 groups without `::`, not for a text with a single `:` before
\* or after it, not for dotted octets alone.
C27_OnlyStandardNotation ==
    pc = "done" /\ ret.err = "" => StandardIp6(written)

----------------------------------------------------------------------------
\* sorted holds the entries of hs, and those with equal instance numbers
\* in the order they have in hs
KeepsAppearanceOrder(sorted, hs) ==
    /\ Len(sorted) = Len(hs)
    /\ \E f \in Permutations(1..Len(hs)) :
          /\ \A k \in 1..Len(hs) : sorted[k] = hs[f[k]]
          /\ \A j, k \in 1..Len(hs) :
                j < k /\ Instance(sorted[j]) = Instance(sorted[k]) => f[j] < f[k]

SortRan ==
    /\ msg_pc = "Some"
    /\ ~FailedAmong(ArcKinds, AllScanned)
    /\ ScannedOfKind("As", AllScanned) # <<>>

C26_SortNeverUnwrapsAFailure ==
    /\ msg_pc # "panic"
    /\ msg_pc = "sort" /\ SortsArc(message, has_arc_errors) =>
          \A kind \in ArcKinds : \A k \in 1..Len(Collection(kind)) :
              Collection(kind)[k].header.ok
    /\ msg_pc \in {"headers", "sort", "Some"} =>
          (has_arc_errors <=> FailedAmong(ArcKinds, next_header))
    /\ msg_pc = "Some" => message.dkim_headers = Entries("Ds", AllScanned)

\* a DKIM-Signature failed to parse and the seals after it were sorted
C26_Witness ==
    /\ SortRan
    /\ AllScanned = 3
    /\ raw_message.headers[1].kind = "Ds"
    /\ ~raw_message.headers[1].parsed.ok
    /\ ~has_arc_errors
    /\ Len(message.as_headers) = 2
    /\ ~Ascending(Entries("As", AllScanned))
    /\ Ascending(message.as_headers)
    /\ ~message.dkim_headers[1].header.ok

----------------------------------------------------------------------------
Ip6Scanning == pc \in {"ip6 loop", "ip6 last", "ip6 expand", "ip6 return", "panic", "done"}

\* C29: ip6 never panics: at every step of its scan the group index is within
\* 0..8 and the digit-buffer index within 0..4, no array access, slice, copy
\* or fill is out of range, and it returns Ok or InvalidIp6, the same as the
\* scan taken as a whole.
C29_Ip6NeverPanics ==
    Ip6Scanning =>
        /\ pc # "panic"
        /\ ip6_locals.flow # "panic"
        /\ ip6_locals.ip_pos \in 0..8
        /\ ip6_locals.ip_part_pos \in 0..4
        /\ DOMAIN ip6_locals.ip = 0..7
        /\ DOMAIN ip6_locals.ip_part = 0..7
        /\ \A k \in 0..7 : ip6_locals.ip[k] \in 0..(U16 - 1)
        /\ pc = "done" => /\ ret.err \in {"", "InvalidIp6"}
                          /\ ret = ip6(record, 0)

\* the ninth group of a text was refused with all 8 groups stored
C29_Witness ==
    /\ pc = "done"
    /\ ip6_locals.ip_pos = 8
    /\ ip6_locals.ip_part_pos = 1
    /\ ret.err = "InvalidIp6"
    /\ record = Bytes("1:2:3:4:5:6:7:8:9:a")

----------------------------------------------------------------------------
ParseErrors == {"InvalidRecord", "InvalidVersion", "ParseFailed", "InvalidMacro",
                "InvalidIp4", "InvalidIp6"}

\* how often the body of the record loop still runs from the turn result r
\* on, counted up to most
RECURSIVE TurnsLeft(_, _, _)
RECURSIVE TurnsAfter(_, _, _, _)
TurnsAfter(s, t, r, most) ==
    IF ~t.some THEN 0
    ELSE 1 + TurnsLeft(s, Turn(s, r.directives, r.modifiers, t), most - 1)

TurnsLeft(s, r, most) ==
    IF r.result # "" \/ most = 0 THEN 0 ELSE TurnsAfter(s, next_term(s, r.pos), r, most)

ParseSoFar ==
    [result |-> result, pos |-> pos, directives |-> directives, modifiers |-> modifiers]

\* parse stands at one of its steps, and a step that is not the return has
\* what the next one needs: next_term gives a term or None
ParseRuns ==
    /\ pc \in {"version", "terms", "done"}
    /\ pc = "terms" => next_term(record, pos).some \in BOOLEAN

ParseProgress ==
    /\ ParseRuns
    /\ pos \in 0..Len(record)
    /\ pc = "terms" => TurnsLeft(record, ParseSoFar, Len(record) + 1) <= Len(record) - pos
    /\ pc = "done" => result \in {"Ok"} \cup ParseErrors

CursorForward ==
    /\ pos' >= pos
    /\ pc = "terms" =>
          /\ term_start' = pos
          /\ last_term'.pos >= term_start'
          /\ pos' >= last_term'.pos
          /\ last_term'.some => last_term'.pos > term_start'
    /\ pc' = "done" \/ pos' > pos

\* C30: SPF::parse returns Ok or an error on every record: the cursor never
\* moves back, neither in next_term nor in the sub-parsers of the arm after
\* it, every next_term call that returns a term has consumed at least one
\* byte, the body of the record loop runs at most once for every byte left,
\* and every step of parse consumes a byte or returns, so that no run is
\* longer than the record.
C30_ParseTerminates ==
    /\ []ParseProgress
    /\ [][CursorForward]_vars

\* two terms were read, each from bytes of its own, and Ok was returned at the
\* end of the record
C30_Witness ==
    /\ pc = "done"
    /\ result = "Ok"
    /\ Len(terms) = 2
    /\ unknown_at = 0
    /\ Len(directives) + Len(modifiers) = 2
    /\ pos = Len(record)
    /\ pos > Len(header)

=============================================================================
